---------------------------- MODULE Spec2Model ----------------------------
(***************************************************************************)
(* A model of the streaming Smali reader of rgoogle.smali: the line        *)
(* cursor (base.Line), the token vocabulary (base.Token), the access       *)
(* modifier table (base.AccessType), the signature decomposer (base.Type)  *)
(* and the parsing engine (reader.SmaliReader).                            *)
(*                                                                         *)
(* Python strings are modelled as sequences of one-character strings, so   *)
(* that every slicing, splitting and pattern test of the source is         *)
(* computed, character by character, the way the source computes it.       *)
(***************************************************************************)
EXTENDS Integers, Sequences, FiniteSets, TLC

(***************************************************************************)
(* Bounds of the model.                                                    *)
(***************************************************************************)
\* lines an open stream delivers before it ends
MaxLines == 1
\* passes of a handler loop over one and the same line that are followed
MaxSpin == 2

(***************************************************************************)
(* Python str operations, over sequences of characters.                    *)
(***************************************************************************)
\* str.isspace() of one character, as used by strip() and by \s and \S
Whitespace == {" ", "\t", "\n", "\r"}

RECURSIVE LStripSet(_, _)
\* str.lstrip(chars)
LStripSet(s, cs) ==
  IF s # <<>> /\ Head(s) \in cs THEN LStripSet(Tail(s), cs) ELSE s

RECURSIVE RStripSet(_, _)
\* str.rstrip(chars)
RStripSet(s, cs) ==
  IF s # <<>> /\ s[Len(s)] \in cs THEN RStripSet(SubSeq(s, 1, Len(s) - 1), cs) ELSE s

\* str.strip(chars)
StripSet(s, cs) == LStripSet(RStripSet(s, cs), cs)

\* a slice bound of Python, brought into 0..len (negative bounds count from the end)
SliceBound(n, len) ==
  LET k == IF n < 0 THEN n + len ELSE n
  IN IF k < 0 THEN 0 ELSE IF k > len THEN len ELSE k

\* s[a:b] of Python, a and b 0-based and possibly negative
PySlice(s, a, b) == SubSeq(s, SliceBound(a, Len(s)) + 1, SliceBound(b, Len(s)))

\* s[a:] of Python
PyFrom(s, a) == SubSeq(s, SliceBound(a, Len(s)) + 1, Len(s))

\* str.startswith(p)
StartsWith(s, p) == Len(s) >= Len(p) /\ SubSeq(s, 1, Len(p)) = p

\* the 0-based positions at which sub occurs in s
Occurrences(s, sub) ==
  {i \in 0..(Len(s) - Len(sub)) : SubSeq(s, i + 1, i + Len(sub)) = sub}

\* str.find(sub): the first 0-based position of sub in s, or -1
Find(s, sub) ==
  LET occ == Occurrences(s, sub)
  IN IF occ = {} THEN -1 ELSE CHOOSE i \in occ : \A j \in occ : i <= j

\* sub in s
Contains(s, sub) == Occurrences(s, sub) # {}

RECURSIVE Split(_, _)
\* str.split(sep) for a non-empty separator: always at least one part
Split(s, sep) ==
  LET i == Find(s, sep)
  IN IF i = -1 THEN <<s>>
     ELSE <<SubSeq(s, 1, i)>> \o Split(PyFrom(s, i + Len(sep)), sep)

RECURSIVE Remove(_, _)
\* str.replace(c, '') for a one-character c
Remove(s, c) ==
  IF s = <<>> THEN <<>>
  ELSE IF Head(s) = c THEN Remove(Tail(s), c) ELSE <<Head(s)>> \o Remove(Tail(s), c)

RECURSIVE Replace(_, _, _)
\* str.replace(a, b) for one-character a and b
Replace(s, a, b) ==
  IF s = <<>> THEN <<>>
  ELSE <<IF Head(s) = a THEN b ELSE Head(s)>> \o Replace(Tail(s), a, b)

\* str.rfind(sub): the last 0-based position of sub in s, or -1
RFind(s, sub) ==
  LET occ == Occurrences(s, sub)
  IN IF occ = {} THEN -1 ELSE CHOOSE i \in occ : \A j \in occ : i >= j

UpperCase == <<"A","B","C","D","E","F","G","H","I","J","K","L","M","N","O","P","Q","R","S","T","U","V","W","X","Y","Z">>
LowerCase == <<"a","b","c","d","e","f","g","h","i","j","k","l","m","n","o","p","q","r","s","t","u","v","w","x","y","z">>

\* str.lower(), for a text of ASCII characters
Lower(s) ==
  [i \in 1..Len(s) |->
     IF \E k \in 1..26 : UpperCase[k] = s[i]
     THEN LowerCase[CHOOSE k \in 1..26 : UpperCase[k] = s[i]]
     ELSE s[i]]

RECURSIVE MapStrip(_)
\* [x.strip() for x in parts]
MapStrip(parts) ==
  IF parts = <<>> THEN <<>>
  ELSE <<StripSet(Head(parts), Whitespace)>> \o MapStrip(Tail(parts))

Digits == {"0", "1", "2", "3", "4", "5", "6", "7", "8", "9"}

\* the value of one decimal digit
DigitVal(c) ==
  CASE c = "0" -> 0 [] c = "1" -> 1 [] c = "2" -> 2 [] c = "3" -> 3 [] c = "4" -> 4
    [] c = "5" -> 5 [] c = "6" -> 6 [] c = "7" -> 7 [] c = "8" -> 8 [] c = "9" -> 9

RECURSIVE DecVal(_, _)
\* the value of a run of decimal digits, most significant first
DecVal(s, acc) == IF s = <<>> THEN acc ELSE DecVal(Tail(s), acc * 10 + DigitVal(Head(s)))

\* int(text) accepts the text: optional blanks, an optional sign, decimal digits
IsInt(text) ==
  LET t == StripSet(text, Whitespace)
      d == IF t # <<>> /\ Head(t) \in {"+", "-"} THEN Tail(t) ELSE t
  IN d # <<>> /\ \A i \in 1..Len(d) : d[i] \in Digits

\* int(text) for an accepted text
IntOf(text) ==
  LET t == StripSet(text, Whitespace)
      neg == t # <<>> /\ Head(t) = "-"
      d == IF t # <<>> /\ Head(t) \in {"+", "-"} THEN Tail(t) ELSE t
  IN IF neg THEN 0 - DecVal(d, 0) ELSE DecVal(d, 0)

(***************************************************************************)
(* base.Token: the keyword texts the reader compares statements with.      *)
(***************************************************************************)
Token_ANNOTATION == <<"a","n","n","o","t","a","t","i","o","n">>
Token_ARRAYDATA == <<"a","r","r","a","y","-","d","a","t","a">>
Token_CATCH == <<"c","a","t","c","h">>
Token_CATCHALL == <<"c","a","t","c","h","a","l","l">>
Token_CLASS == <<"c","l","a","s","s">>
Token_END == <<"e","n","d">>
Token_ENUM == <<"e","n","u","m">>
Token_FIELD == <<"f","i","e","l","d">>
Token_IMPLEMENTS == <<"i","m","p","l","e","m","e","n","t","s">>
Token_LINE == <<"l","i","n","e">>
Token_LOCAL == <<"l","o","c","a","l">>
Token_LOCALS == <<"l","o","c","a","l","s">>
Token_METHOD == <<"m","e","t","h","o","d">>
Token_PACKEDSWITCH == <<"p","a","c","k","e","d","-","s","w","i","t","c","h">>
Token_PARAM == <<"p","a","r","a","m">>
Token_PROLOGUE == <<"p","r","o","l","o","g","u","e">>
Token_REGISTERS == <<"r","e","g","i","s","t","e","r","s">>
Token_RESTART == <<"r","e","s","t","a","r","t">>
Token_SOURCE == <<"s","o","u","r","c","e">>
Token_SPARSESWITCH == <<"s","p","a","r","s","e","-","s","w","i","t","c","h">>
Token_SUBANNOTATION == <<"s","u","b","a","n","n","o","t","a","t","i","o","n">>
Token_SUPER == <<"s","u","p","e","r">>

\* opcode.RETURN and opcode.GOTO, the two mnemonics the reader imports
RETURN == <<"r","e","t","u","r","n">>
GOTO == <<"g","o","t","o">>
INVOKE == <<"i","n","v","o","k","e">>

(***************************************************************************)
(* base.AccessType: the modifier keywords and their bits.                  *)
(***************************************************************************)
\* the members of the flag enumeration, in declaration order, each with the
\* keyword val.name.lower().replace('_', '-')
AccessType ==
  << [name |-> <<"p","u","b","l","i","c">>, value |-> 1],
     [name |-> <<"p","r","i","v","a","t","e">>, value |-> 2],
     [name |-> <<"p","r","o","t","e","c","t","e","d">>, value |-> 4],
     [name |-> <<"s","t","a","t","i","c">>, value |-> 8],
     [name |-> <<"f","i","n","a","l">>, value |-> 16],
     [name |-> <<"s","y","n","c","h","r","o","n","i","z","e","d">>, value |-> 32],
     [name |-> <<"v","o","l","a","t","i","l","e">>, value |-> 64],
     [name |-> <<"b","r","i","d","g","e">>, value |-> 128],
     [name |-> <<"t","r","a","n","s","i","e","n","t">>, value |-> 256],
     [name |-> <<"v","a","r","a","r","g","s">>, value |-> 512],
     [name |-> <<"n","a","t","i","v","e">>, value |-> 1024],
     [name |-> <<"i","n","t","e","r","f","a","c","e">>, value |-> 2048],
     [name |-> <<"a","b","s","t","r","a","c","t">>, value |-> 4096],
     [name |-> <<"s","t","r","i","c","t","f","p">>, value |-> 8192],
     [name |-> <<"s","y","n","t","h","e","t","i","c">>, value |-> 16384],
     [name |-> <<"a","n","n","o","t","a","t","i","o","n">>, value |-> 32768],
     [name |-> <<"e","n","u","m">>, value |-> 65536],
     [name |-> <<"c","o","n","s","t","r","u","c","t","o","r">>, value |-> 131072],
     [name |-> <<"d","e","c","l","a","r","e","d","-","s","y","n","c","h","r","o","n","i","z","e","d">>, value |-> 262144],
     [name |-> <<"s","y","s","t","e","m">>, value |-> 524288],
     [name |-> <<"r","u","n","t","i","m","e">>, value |-> 1048576],
     [name |-> <<"b","u","i","l","d">>, value |-> 2097152] >>

\* AccessType.find(value)
find(value) == \E i \in 1..Len(AccessType) : AccessType[i].name = value

RECURSIVE SumOf(_)
\* the sum of a finite set of integers
SumOf(S) == IF S = {} THEN 0 ELSE LET x == CHOOSE y \in S : TRUE IN x + SumOf(S \ {x})

\* AccessType.get_flags(values): the members are distinct single bits, so
\* OR-ing the ones whose keyword is an entry in lower case is the sum of the
\* distinct matching bits; empty entries and unknown words add nothing
get_flags(values) ==
  SumOf({AccessType[i].value : i \in {j \in 1..Len(AccessType) :
            \E k \in 1..Len(values) :
               values[k] # <<>> /\ Lower(values[k]) = AccessType[j].name}})

RECURSIVE Pow2(_)
\* 2 ** n
Pow2(n) == IF n = 0 THEN 1 ELSE 2 * Pow2(n - 1)

RECURSIVE BitAnd(_, _)
\* a & b of two integers that are not negative
BitAnd(a, b) ==
  IF a = 0 \/ b = 0 THEN 0
  ELSE (a % 2) * (b % 2) + 2 * BitAnd(a \div 2, b \div 2)

\* a variant of __contains__ that takes a plain integer as a flag value
AccessType_contains_Subset(self, other) == BitAnd(other.value, self) = other.value

\* AccessType.__contains__(self, other), self the value of the flag and other
\* a flag value (enum.Flag.__contains__: every bit of other is one of self)
\* or a plain integer
AccessType_contains(self, other) ==
  IF other.class = "AccessType" THEN BitAnd(other.value, self) = other.value
  ELSE BitAnd(self, other.value) # 0

RECURSIVE NamesFrom(_, _)
\* the loop of AccessType.get_names over the members from the i-th on
NamesFrom(i, flags) ==
  IF i > Len(AccessType) THEN <<>>
  ELSE (IF AccessType_contains(AccessType[i].value, flags)
        THEN <<AccessType[i].name>> ELSE <<>>) \o NamesFrom(i + 1, flags)

\* a variant of get_names that names the member equal to flags alone
get_names_Exact(flags) ==
  SelectSeq([i \in 1..Len(AccessType) |-> AccessType[i].name],
            LAMBDA n : \E i \in 1..Len(AccessType) :
                         AccessType[i].name = n /\ AccessType[i].value = flags.value)

\* AccessType.get_names(flags)
get_names(flags) == NamesFrom(1, flags)

(***************************************************************************)
(* base.SmaliType.RE_TYPE_VALUE and is_type_descriptor.                    *)
(***************************************************************************)
PrimitiveTypes == {"Z", "C", "B", "S", "I", "F", "V", "J", "D"}

\* RE_TYPE_VALUE.match(value) is not None, for a value without a line break:
\* any run of '[', then either 'L', non-blank characters and a final ';', or
\* one primitive letter, up to the end of the value
is_type_descriptor(value) ==
  LET r == LStripSet(value, {"["})
  IN \/ /\ Len(r) >= 2
        /\ r[1] = "L"
        /\ r[Len(r)] = ";"
        /\ \A i \in 2..(Len(r) - 1) : r[i] \notin Whitespace
     \/ /\ Len(r) = 1
        /\ r[1] \in PrimitiveTypes

(***************************************************************************)
(* base.Type: the method queries over a signature.                         *)
(***************************************************************************)
Type_INIT == <<"<","i","n","i","t",">">>
Type_CLINIT == <<"<","c","l","i","n","i","t",">">>

\* a variant of MethodSignatureOk that takes every signature
MethodSignatureOk_Lenient(signature) == signature = signature

\* get_method_name, get_method_params and get_method_return_type raise
\* TypeError: no '(' (the name query) or no ')' (the two others)
MethodSignatureOk(signature) ==
  Find(signature, <<"(">>) # -1 /\ Find(signature, <<")">>) # -1

\* Type.get_method_name for a signature with a '('
get_method_name(signature) ==
  LET name == PySlice(signature, 0, Find(signature, <<"(">>))
  IN IF name \in {Type_INIT, Type_CLINIT} THEN name
     ELSE LStripSet(RStripSet(name, {">"}), {"<"})

RECURSIVE ParamScan(_, _, _, _)
\* the loop of Type.get_method_params: idx over params, is_type, current
ParamScan(params, is_type, current, param_list) ==
  IF params = <<>> THEN param_list
  ELSE LET c == Head(params)
           rest == Tail(params)
       IN IF c = "L"
          THEN ParamScan(rest, TRUE, current \o <<c>>, param_list)
          ELSE IF c = ";"
          THEN ParamScan(rest, FALSE, <<>>, Append(param_list, current \o <<";">>))
          ELSE IF c = "["
          THEN ParamScan(rest, is_type, current \o <<"[">>, param_list)
          ELSE IF is_type
          THEN ParamScan(rest, is_type, current \o <<c>>, param_list)
          ELSE ParamScan(rest, is_type, current, Append(param_list, <<c>>))

\* Type.get_method_params for a signature with '(' and ')'
get_method_params(signature) ==
  ParamScan(PySlice(signature, Find(signature, <<"(">>) + 1, Find(signature, <<")">>)),
            FALSE, <<>>, <<>>)

\* Type.get_method_return_type for a signature with a ')'
get_method_return_type(signature) == PyFrom(signature, Find(signature, <<")">>) + 1)

\* Type.descriptor
Type_descriptor(signature) ==
  IF is_type_descriptor(signature) THEN signature
  ELSE IF StartsWith(signature, <<"[">>)
  THEN LET idx == RFind(signature, <<"[">>)
       IN PySlice(signature, 0, idx) \o <<"L">>
            \o Replace(PyFrom(signature, idx + 1), ".", "/") \o <<";">>
  ELSE <<"L">> \o Replace(signature, ".", "/") \o <<";">>

\* Type.type_name
Type_type_name(signature) ==
  IF ~is_type_descriptor(signature) THEN signature
  ELSE LET r == LStripSet(signature, {"["})
       IN Replace(PySlice(r, 1, -1), ".", "/")

\* Type.class_name
Type_class_name(signature) == Remove(Replace(Type_type_name(signature), "/", "."), "[")

(***************************************************************************)
(* base.smali_value and base.SmaliType: the literal values.  A decoded     *)
(* value is its Python class and its value; a float keeps its text.        *)
(***************************************************************************)
HexDigits ==
  Digits \cup {"a", "b", "c", "d", "e", "f", "A", "B", "C", "D", "E", "F"}

\* the characters of \w
WordChars ==
  Digits \cup {"_"} \cup {UpperCase[k] : k \in 1..26} \cup {LowerCase[k] : k \in 1..26}

\* the text after the optional sign [\-\+]?
Unsigned(value) == IF value # <<>> /\ Head(value) \in {"+", "-"} THEN Tail(value) ELSE value

\* (0x)?body$ on a text, for a body that cannot start with 'x'
OptionalHex(text, Body(_)) ==
  \/ StartsWith(text, <<"0", "x">>) /\ Body(PyFrom(text, 2))
  \/ Body(text)

\* [\dabcdefABCDEF]+c$ : hexadecimal digits and the suffix letter c
Suffixed(body, c) ==
  /\ Len(body) >= 2
  /\ body[Len(body)] = c
  /\ \A i \in 1..(Len(body) - 1) : body[i] \in HexDigits

\* \d+\.\d+ at the start of the body, and up to its end if whole
Decimal(body, whole) ==
  \E i \in 2..(Len(body) - 1) :
    /\ body[i] = "."
    /\ \A k \in 1..(i - 1) : body[k] \in Digits
    /\ body[i + 1] \in Digits
    /\ whole => \A k \in (i + 1)..Len(body) : body[k] \in Digits

\* matcher.match(value) is not None for the patterns of SmaliType, value
\* without a line break: match() anchors the pattern at the start of the
\* value only, a final $ anchors it at the end
Matches(matcher, value) ==
  LET v == Unsigned(value)
  IN CASE matcher = "RE_SHORT_VALUE" -> OptionalHex(v, LAMBDA b : Suffixed(b, "s"))
       [] matcher = "RE_LONG_VALUE" -> OptionalHex(v, LAMBDA b : Suffixed(b, "l"))
       [] matcher = "RE_BYTE_VALUE" -> OptionalHex(v, LAMBDA b : Suffixed(b, "t"))
       [] matcher = "RE_INT_VALUE" -> v # <<>> /\ Head(v) \in HexDigits
       [] matcher = "RE_BOOL_VALUE" ->
            StartsWith(value, <<"t","r","u","e">>) \/ StartsWith(value, <<"f","a","l","s","e">>)
       [] matcher = "RE_FLOAT_VALUE" ->
            /\ v # <<>>
            /\ v[Len(v)] = "f"
            /\ OptionalHex(PySlice(v, 0, -1), LAMBDA b : Decimal(b, TRUE))
       [] matcher = "RE_DOUBLE_VALUE" -> OptionalHex(v, LAMBDA b : Decimal(b, FALSE))
       [] matcher = "RE_CHAR_VALUE" ->
            /\ Len(value) >= 2
            /\ value[1] = "'" /\ value[Len(value)] = "'"
            /\ \A i \in 2..(Len(value) - 1) : value[i] \in WordChars
       [] matcher = "RE_STRING_VALUE" ->
            /\ Len(value) >= 2
            /\ value[1] = "\"" /\ value[Len(value)] = "\""
            /\ \A i \in 2..(Len(value) - 1) : value[i] \in WordChars
       [] matcher = "RE_TYPE_VALUE" -> is_type_descriptor(value)
       [] matcher = "RE_HEX_VALUE" ->
            StartsWith(value, <<"0", "x">>) /\ Len(value) >= 3 /\ value[3] \in HexDigits

\* SmaliType.TYPE_MAP: the patterns in their order, each with its wrapper
TYPE_MAP ==
  << [matcher |-> "RE_SHORT_VALUE", wrapper |-> "int"],
     [matcher |-> "RE_LONG_VALUE", wrapper |-> "int"],
     [matcher |-> "RE_BYTE_VALUE", wrapper |-> "int"],
     [matcher |-> "RE_INT_VALUE", wrapper |-> "int"],
     [matcher |-> "RE_BOOL_VALUE", wrapper |-> "bool"],
     [matcher |-> "RE_FLOAT_VALUE", wrapper |-> "float"],
     [matcher |-> "RE_DOUBLE_VALUE", wrapper |-> "float"],
     [matcher |-> "RE_CHAR_VALUE", wrapper |-> "str"],
     [matcher |-> "RE_STRING_VALUE", wrapper |-> "str"],
     [matcher |-> "RE_TYPE_VALUE", wrapper |-> "Type"] >>

\* the value of one hexadecimal digit
HexDigitVal(c) ==
  IF c \in Digits THEN DigitVal(c)
  ELSE CASE c \in {"a", "A"} -> 10 [] c \in {"b", "B"} -> 11 [] c \in {"c", "C"} -> 12
         [] c \in {"d", "D"} -> 13 [] c \in {"e", "E"} -> 14 [] c \in {"f", "F"} -> 15

RECURSIVE HexVal(_, _)
\* the value of a run of hexadecimal digits, most significant first
HexVal(s, acc) == IF s = <<>> THEN acc ELSE HexVal(Tail(s), acc * 16 + HexDigitVal(Head(s)))

InvalidLiteral == "ValueError: invalid literal"

\* wrapper(value) and wrapper(value, base=16) for the wrappers of TYPE_MAP:
\* the exception raised and the decoded value.  int() and float() take a
\* whole numeral only, base 16 with the prefix 0x, float() no prefix and no
\* suffix
Wrap(wrapper, value, hex_val) ==
  LET ok(class, v) == [raised |-> "none", actual_value |-> <<[class |-> class, value |-> v]>>]
      fail == [raised |-> InvalidLiteral, actual_value |-> <<>>]
  IN CASE wrapper = "int" /\ hex_val ->
            LET d == PyFrom(value, 2)
            IN IF \A i \in 1..Len(d) : d[i] \in HexDigits THEN ok("int", HexVal(d, 0))
               ELSE fail
       [] wrapper = "int" /\ ~hex_val -> IF IsInt(value) THEN ok("int", IntOf(value)) ELSE fail
       [] wrapper = "bool" -> ok("bool", value = <<"t","r","u","e">>)
       [] wrapper = "float" ->
            IF Decimal(Unsigned(value), TRUE) THEN ok("float", value) ELSE fail
       [] wrapper = "str" -> ok("str", PySlice(value, 1, -1))
       [] wrapper = "Type" -> ok("Type", value)

\* not actual_value, for a decoded value
Falsy(actual) ==
  CASE actual.class = "int" -> actual.value = 0
    [] actual.class = "bool" -> ~actual.value
    [] actual.class = "float" -> \A i \in 1..Len(actual.value) : actual.value[i] \notin Digits \ {"0"}
    [] actual.class = "str" -> actual.value = <<>>
    [] actual.class = "Type" -> FALSE

NoMatchingType == "ValueError: Could not find any matching primitive type"

\* smali_value(value): the exception raised, and the SmaliType object made,
\* id telling it from every object made later.  The first pattern of
\* TYPE_MAP that matches decides the wrapper; the four first take base 16 for
\* a value RE_HEX_VALUE matches
smali_value(value) ==
  LET hits == {i \in 1..Len(TYPE_MAP) : Matches(TYPE_MAP[i].matcher, value)}
  IN IF hits = {} THEN [raised |-> NoMatchingType, sm_value |-> <<>>]
     ELSE LET i == CHOOSE h \in hits : \A k \in hits : h <= k
              w == Wrap(TYPE_MAP[i].wrapper, value, i <= 4 /\ Matches("RE_HEX_VALUE", value))
          IN IF w.raised # "none" THEN [raised |-> w.raised, sm_value |-> <<>>]
             ELSE IF Falsy(w.actual_value[1])
             THEN [raised |-> NoMatchingType, sm_value |-> <<>>]
             ELSE [raised |-> "none",
                   sm_value |-> <<[id |-> 1, value |-> value,
                                   actual_value |-> w.actual_value[1]]>>]

\* __smali_specials__: the in-place operators and what each computes for an
\* actual value x and an operand y that is an integer and not negative: the
\* exception raised, the result.  A bool counts as 0 or 1; a str takes the
\* repetition alone; a quotient that is no integer is kept as its terms
__smali_specials__ ==
  <<"__iadd__", "__isub__", "__imul__", "__itruediv__", "__ifloordiv__", "__imod__",
    "__ilshift__", "__irshift__", "__iand__", "__ixor__", "__ior__">>

RECURSIVE Repeat(_, _)
Repeat(s, n) == IF n = 0 THEN <<>> ELSE s \o Repeat(s, n - 1)

Special(method, actual, y) ==
  LET ok(v) == [raised |-> "none", result |-> <<v>>]
      fail(e) == [raised |-> e, result |-> <<>>]
      x == IF actual.class = "bool" THEN (IF actual.value THEN 1 ELSE 0) ELSE actual.value
  IN IF actual.class \in {"int", "bool"}
     THEN CASE method = "__iadd__" -> ok(x + y)
            [] method = "__isub__" -> ok(x - y)
            [] method = "__imul__" -> ok(x * y)
            [] method = "__itruediv__" ->
                 IF y = 0 THEN fail("ZeroDivisionError") ELSE ok(<<x, "/", y>>)
            [] method = "__ifloordiv__" ->
                 IF y = 0 THEN fail("ZeroDivisionError") ELSE ok(x \div y)
            [] method = "__imod__" -> IF y = 0 THEN fail("ZeroDivisionError") ELSE ok(x % y)
            [] method = "__ilshift__" -> ok(x * Pow2(y))
            [] method = "__irshift__" -> ok(x \div Pow2(y))
            [] method = "__iand__" -> ok(BitAnd(x, y))
            [] method = "__ixor__" -> ok(x + y - 2 * BitAnd(x, y))
            [] method = "__ior__" -> ok(x + y - BitAnd(x, y))
     ELSE IF actual.class = "str" /\ method = "__imul__" THEN ok(Repeat(actual.value, y))
     ELSE fail("TypeError")

\* __wrap_special__(instance, actual_val, val, funct), funct the function of
\* the in-place operator method: the exception raised, the object returned
__wrap_special__(instance, actual_val, val, method) ==
  LET r == Special(method, actual_val, val)
  IN IF r.raised # "none" THEN [raised |-> r.raised, returned |-> <<>>]
     ELSE [raised |-> "none", returned |-> <<instance>>]

(***************************************************************************)
(* base.Line: the line cursor.  toks holds the tokens from the current one *)
(* (_head) on; the cursor is exhausted (_head is _default) when toks is    *)
(* empty.  eol_comment is <<>> for None and <<text>> for a comment.        *)
(***************************************************************************)
\* the 0-based start of RE_EOL_COMMENT.search(cleaned), or -1: the blanks right
\* before the first '#' belong to the match, which runs to the end of the line
EolStart(cleaned) ==
  LET h == Find(cleaned, <<"#">>)
  IN IF h = -1 THEN -1
     ELSE CHOOSE i \in 0..h :
            /\ \A j \in (i + 1)..h : cleaned[j] \in Whitespace
            /\ (i = 0 \/ cleaned[i] \notin Whitespace)

\* Line.reset(line) for a non-empty line
reset(text) ==
  LET raw == RStripSet(text, Whitespace)
      stripped == LStripSet(raw, Whitespace)
      start == EolStart(stripped)
      cleaned == IF start = -1 THEN stripped ELSE PySlice(stripped, 0, start)
  IN [raw |-> raw,
      cleaned |-> cleaned,
      eol_comment |-> IF start = -1 THEN <<>>
                      ELSE <<LStripSet(PyFrom(stripped, start), {"#", " "})>>,
      toks |-> Split(cleaned, <<" ">>)]

\* Line(None): a cursor that is exhausted and holds no line yet
NoLine == [raw |-> <<>>, cleaned |-> <<>>, eol_comment |-> <<>>, toks |-> <<>>]

\* Line.last()
last(ln) == LET parts == Split(ln.cleaned, <<" ">>) IN parts[Len(parts)]

\* Line.has_eol()
has_eol(ln) == ln.eol_comment # <<>>

(***************************************************************************)
(* base.Line as an object of its own: _head is <<>> for the sentinel       *)
(* _default and <<token>> for a token, so that the empty token <<"">> and  *)
(* the sentinel differ as the str '' and object() do; _it holds the tokens *)
(* the iterator has not delivered yet; bound tells whether reset has ever  *)
(* set the attributes raw, cleaned and eol_comment.                        *)
(***************************************************************************)
\* Line._default
_default == <<>>

\* Line._get_next on the iterator it: the value and the iterator after it
_get_next(it) ==
  IF it = <<>> THEN [value |-> _default, it |-> <<>>]
  ELSE [value |-> <<Head(it)>>, it |-> Tail(it)]

\* the object before __init__ has called reset: _it = None, _head = _default
Line_new ==
  [bound |-> FALSE, raw |-> <<>>, cleaned |-> <<>>, eol_comment |-> <<>>,
   _head |-> _default, _it |-> <<>>]

\* Line.reset(line) on the object ln: nothing but the iterator is reset for
\* an empty line (or None)
Line_reset(ln, text) ==
  IF text = <<>> THEN [ln EXCEPT !._head = _default, !._it = <<>>]
  ELSE LET r == reset(text)
           first == _get_next(r.toks)
       IN [bound |-> TRUE, raw |-> r.raw, cleaned |-> r.cleaned,
           eol_comment |-> r.eol_comment, _head |-> first.value, _it |-> first.it]

\* Line(line)
Line_init(text) == Line_reset(Line_new, text)

\* a variant of Line_bool for which an empty token is the end of the line
Line_bool_Falsy(ln) == ln._head # _default /\ ln._head # <<<<>>>>

\* Line.__bool__ and Line.has_next
Line_bool(ln) == ln._head # _default

\* Line.__next__: the object after the call, whether StopIteration was
\* raised, and the value returned
Line_next(ln) ==
  IF ~Line_bool(ln) THEN [line |-> ln, raised |-> TRUE, value |-> _default]
  ELSE LET nxt == _get_next(ln._it)
       IN [line |-> [ln EXCEPT !._head = nxt.value, !._it = nxt.it],
           raised |-> FALSE, value |-> ln._head]

\* a variant of Line_peek that moves on to the next token
Line_peek_Advancing(ln, default) ==
  IF ln._head = _default
  THEN [line |-> ln, raised |-> default = _default, value |-> default]
  ELSE LET nxt == _get_next(ln._it)
       IN [line |-> [ln EXCEPT !._head = nxt.value, !._it = nxt.it],
           raised |-> FALSE, value |-> ln._head]

\* Line.peek(default): default is _default when the caller gives none
Line_peek(ln, default) ==
  IF ln._head = _default
  THEN [line |-> ln, raised |-> default = _default, value |-> default]
  ELSE [line |-> ln, raised |-> FALSE, value |-> ln._head]

\* reading an attribute of the object: <<>> for the AttributeError of an
\* attribute never set, <<value>> otherwise
Line_attr(ln, value) == IF ln.bound THEN <<value>> ELSE <<>>

(***************************************************************************)
(* The visitors (rgoogle.smali.visitor): a scope handle is its class, a    *)
(* mark telling a consumer's scope from the shared no-op instances         *)
(* EMPTY_FIELDV, EMPTY_METHV, EMPTY_ANNOV, and, for a consumer's scope,    *)
(* the depth of the stack at which it was opened.                          *)
(***************************************************************************)
None == [cls |-> "NoneType", real |-> FALSE, id |-> 0]
EMPTY_FIELDV == [cls |-> "FieldVisitor", real |-> FALSE, id |-> 0]
EMPTY_METHV == [cls |-> "MethodVisitor", real |-> FALSE, id |-> 0]
EMPTY_ANNOV == [cls |-> "AnnotationVisitor", real |-> FALSE, id |-> 0]

\* the methods every visitor has
BaseMethods == {"visit_comment", "visit_eol_comment", "visit_end"}

\* the methods of each visitor class
Methods(cls) ==
  CASE cls = "ClassVisitor" ->
         BaseMethods \cup {"visit_class", "visit_inner_class", "visit_super",
            "visit_implements", "visit_source", "visit_field", "visit_method",
            "visit_annotation"}
    [] cls = "FieldVisitor" -> BaseMethods \cup {"visit_annotation"}
    [] cls = "MethodVisitor" ->
         BaseMethods \cup {"visit_registers", "visit_locals", "visit_line",
            "visit_param", "visit_prologue", "visit_restart", "visit_block",
            "visit_catch", "visit_catchall", "visit_packed_switch",
            "visit_sparse_switch", "visit_array_data", "visit_local",
            "visit_invoke", "visit_return", "visit_goto", "visit_instruction"}
    [] cls = "AnnotationVisitor" ->
         BaseMethods \cup {"visit_value", "visit_array", "visit_enum",
            "visit_subannotation"}
    [] OTHER -> {}

\* bool(visitor): None is false, every visitor object is true
Truthy(v) == v.cls # "NoneType"

\* the scope a consumer's visit_* opens at the top of this stack
NewScope(stk, cls) == [cls |-> cls, real |-> TRUE, id |-> Len(stk) + 1]

(***************************************************************************)
(* reader.SmaliReader                                                      *)
(***************************************************************************)
VARIABLES
  validate,   \* SmaliReader.validate
  comments,   \* SmaliReader.comments
  snippet,    \* SmaliReader.snippet
  errors,     \* SmaliReader.errors
  source,     \* SmaliReader.source: the lines not read yet
  stack,      \* SmaliReader.stack
  line,       \* SmaliReader.line
  pc,         \* where visit() stands: the readline it waits at, or how it ended
  loc,        \* the locals of the handler that waits inside a block
  exc,        \* the exception that left visit(), "none" if none did
  events,     \* the calls consumers received since the drive loop last read a statement
  log,        \* all calls consumers received, kept for a source given in full
  tally,      \* the statements the drive loop has dispatched so far, counted by kind
  cursor,     \* a Line object driven on its own, through reset, next and peek
  trial,      \* what that object was given and what it has returned so far
  query,      \* the last call of a function of base on its own, and what it gave
  visits      \* the calls of SmaliReader.visit begun so far

readervars == <<validate, comments, snippet, errors, source, stack, line, pc, loc, exc,
                events, log, tally, visits>>

vars == <<validate, comments, snippet, errors, source, stack, line, pc, loc, exc,
          events, log, tally, cursor, trial, query, visits>>

\* the locals of the block handlers: value (base or width), values (labels,
\* elements or key/label pairs), name (of an array value), reads (lines the
\* handler has read), passes (runs of the loop body over the current line)
NoLoc == [value |-> <<>>, values |-> <<>>, name |-> <<>>, reads |-> 0, passes |-> 0]

\* the pcs at which a handler waits for a further line of its block
BlockPcs == {"packed_switch", "sparse_switch", "array_data", "value_array"}

\* the outcome of a call on the Line object: the method, whether it raised
\* StopIteration, the value it returned
Outcome(op, raised, value) == [op |-> op, raised |-> raised, value |-> value]

\* the record of a Line object just made from text: the line it was given
\* last, a second object made from that line alone and driven through the
\* same calls, the tokens next() has returned since, the outcome of the last
\* call, the resets so far
TrialOf(text, resets) ==
  [fed |-> text, fresh |-> Line_init(text), got |-> <<>>,
   out |-> Outcome("reset", FALSE, _default), resets |-> resets]

\* no Line object is driven on its own
NoTrial == TrialOf(<<>>, 0)

\* a call of a function of base on its own: the function, its argument, the
\* exception it raised ("none" if it returned), the value it returned as
\* <<value>>, and as <<call>> the call whose result it was applied to
Gave(fn, arg, value) ==
  [fn |-> fn, arg |-> arg, raised |-> "none", value |-> <<value>>, prior |-> <<>>]
Threw(fn, arg, e) ==
  [fn |-> fn, arg |-> arg, raised |-> e, value |-> <<>>, prior |-> <<>>]
After(call, prior) == [call EXCEPT !.prior = <<[prior EXCEPT !.prior = <<>>]>>]

\* an object made (fn is its class) that no function has been applied to yet
Made(class, arg) ==
  [fn |-> class, arg |-> arg, raised |-> "none", value |-> <<>>, prior |-> <<>>]

\* no function is called on its own
NoQuery == Made("none", <<>>)

\* the running state of one step of visit(): m.ev are the calls made in the step
Raise(m, e) == [m EXCEPT !.exc = e]
Ok(m) == m.exc = "none"
Top(m) == m.stack[Len(m.stack)]
HasNext(m) == m.line.toks # <<>>
Cur(m) == Head(m.line.toks)
Adv(m) == [m EXCEPT !.line.toks = Tail(@)]
Push(m, v) == [m EXCEPT !.stack = Append(@, v)]
\* a variant of Pop that takes two frames off the stack
PopTwice(m) == [m EXCEPT !.stack = SubSeq(@, 1, Len(@) - 2)]
Pop(m) == [m EXCEPT !.stack = SubSeq(@, 1, Len(@) - 1)]

\* a call a consumer's scope received, with what the consumer returned
Event(on, call, args, ret) == [on |-> on, call |-> call, args |-> args, ret |-> ret]

\* self._visitor.<call>(*args), returning ret: self._visitor is self.stack[-1];
\* the no-op instances take every call of their class and record nothing
CallRet(m, call, args, ret) ==
  IF m.stack = <<>> THEN Raise(m, "IndexError")
  ELSE IF call \notin Methods(Top(m).cls) THEN Raise(m, "AttributeError")
  ELSE IF Top(m).real
  THEN [m EXCEPT !.ev = Append(@, Event(Top(m), call, args, ret))]
  ELSE m

\* a call that returns nothing
Call(m, call, args) == CallRet(m, call, args, None)

\* what a scope-opening call on the top of the stack returns: a consumer's
\* scope if the consumer gives one (ret), None from a consumer that gives
\* none and from the no-op instances
Returned(m, ret, cls) ==
  IF Top(m).real /\ ret THEN NewScope(m.stack, cls) ELSE None

\* SmaliReader._publish_comment
_publish_comment(m) ==
  IF ~has_eol(m.line) THEN m
  ELSE IF m.stack = <<>> THEN Raise(m, "IndexError")
  ELSE IF Truthy(Top(m)) THEN Call(m, "visit_eol_comment", m.line.eol_comment)
  ELSE m

\* _publish_comment() after a step that raised nothing
ThenPublish(m) == IF Ok(m) THEN _publish_comment(m) ELSE m

\* SyntaxError("Unexpected EOL (end of line)"), told from the SyntaxErrors of
\* the validation, which carry other messages
UnexpectedEOL == "SyntaxError: Unexpected EOL (end of line)"

\* SmaliReader._throw_eol, called from a handler's except StopIteration
_throw_eol(m) == IF errors = "strict" THEN Raise(m, UnexpectedEOL) ELSE m

\* SmaliReader._validate_token: the exception it raises, or "none"
_validate_token(token, expected) ==
  IF ~validate THEN "none"
  ELSE IF token = <<>> THEN "IndexError"
  ELSE IF token[1] # "." THEN "SyntaxError"
  ELSE IF Tail(token) # expected THEN "SyntaxError"
  ELSE "none"

\* SmaliReader._validate_descriptor: the exception it raises, or "none"
_validate_descriptor(name) ==
  IF validate /\ ~is_type_descriptor(name) THEN "SyntaxError" ELSE "none"

RECURSIVE _read_access_flags(_)
\* SmaliReader._read_access_flags over the tokens left: the flags, the tokens
\* from the first one that is no modifier, and eol if peek() ran off the line
_read_access_flags(toks) ==
  IF toks = <<>> THEN [flags |-> <<>>, toks |-> <<>>, eol |-> TRUE]
  ELSE IF find(Head(toks))
  THEN LET r == _read_access_flags(Tail(toks))
       IN [r EXCEPT !.flags = <<Head(toks)>> \o @]
  ELSE [flags |-> <<>>, toks |-> toks, eol |-> FALSE]

RECURSIVE CollectFrom(_, _)
\* the loop of SmaliReader._collect_values over the tokens left; a token that
\* is empty after rstrip raises IndexError at value[0]
CollectFrom(toks, strip_chars) ==
  IF toks = <<>> THEN [values |-> <<>>, exc |-> "none"]
  ELSE LET value == RStripSet(Head(toks), strip_chars)
       IN IF value = <<>> THEN [values |-> <<>>, exc |-> "IndexError"]
          ELSE LET r == CollectFrom(Tail(toks), strip_chars)
                   part == IF value[1] # "\"" /\ value[Len(value)] # "\""
                              /\ Contains(value, <<",">>)
                           THEN Split(value, <<",">>) ELSE <<value>>
               IN IF r.exc # "none" THEN r ELSE [r EXCEPT !.values = part \o @]

\* SmaliReader._collect_values: the cursor ends exhausted
_collect_values(m, strip_chars) ==
  LET r == CollectFrom(m.line.toks, strip_chars)
  IN [m |-> IF r.exc = "none" THEN [m EXCEPT !.line.toks = <<>>] ELSE Raise(m, r.exc),
      values |-> r.values]

\* SmaliReader._class_def from its try block on, the line being read
_class_def(m, inner_class, ret) ==
  IF ~HasNext(m) THEN [m |-> _throw_eol(m), c_visitor |-> None]
  ELSE
    LET token == Cur(m)
        m1 == Adv(m)
        vt == _validate_token(token, Token_CLASS)
        fl == _read_access_flags(m1.line.toks)
        m2 == [m1 EXCEPT !.line.toks = fl.toks]
        name == Cur(m2)
        vd == _validate_descriptor(name)
        m3 == CallRet(m2, IF inner_class THEN "visit_inner_class" ELSE "visit_class",
                      <<name, get_flags(fl.flags)>>, Returned(m2, ret, "ClassVisitor"))
    IN IF vt # "none" THEN [m |-> Raise(m1, vt), c_visitor |-> None]
       ELSE IF fl.eol THEN [m |-> _throw_eol(m2), c_visitor |-> None]
       ELSE IF vd # "none" THEN [m |-> Raise(m2, vd), c_visitor |-> None]
       ELSE IF ~Ok(m3) THEN [m |-> m3, c_visitor |-> None]
       ELSE [m |-> _publish_comment(m3), c_visitor |-> Returned(m2, ret, "ClassVisitor")]

\* SmaliReader._handle_super
_handle_super(m) ==
  IF ~HasNext(m) THEN _throw_eol(m)
  ELSE
    LET m1 == Adv(m)
        vt == _validate_token(Cur(m), Token_SUPER)
    IN IF vt # "none" THEN Raise(m1, vt)
       ELSE IF ~HasNext(m1) THEN _throw_eol(m1)
       ELSE IF ~is_type_descriptor(Cur(m1)) THEN Raise(m1, "SyntaxError")
       ELSE ThenPublish(Call(m1, "visit_super", <<Cur(m1)>>))

\* SmaliReader._handle_source
_handle_source(m) ==
  IF ~HasNext(m) THEN _throw_eol(m)
  ELSE
    LET m1 == Adv(m)
        vt == _validate_token(Cur(m), Token_SOURCE)
    IN IF vt # "none" THEN Raise(m1, vt)
       ELSE IF ~HasNext(m1) THEN _throw_eol(m1)
       ELSE ThenPublish(Call(m1, "visit_source", <<Remove(Cur(m1), "\"")>>))

\* SmaliReader._handle_field
_handle_field(m, ret) ==
  IF ~HasNext(m) THEN _throw_eol(m)
  ELSE
    LET m1 == Adv(m)
        vt == _validate_token(Cur(m), Token_FIELD)
        fl == _read_access_flags(m1.line.toks)
        m2 == [m1 EXCEPT !.line.toks = fl.toks]
        parts == Split(Cur(m2), <<":">>)
        m3 == Adv(m2)
        descriptor == parts[2]
        vd == _validate_descriptor(descriptor)
        name == LStripSet(RStripSet(parts[1], {">"}), {"<"})
        rest == m3.line.toks
        value == IF rest = <<>> THEN <<>> ELSE <<rest[Len(rest)]>>
        m4 == [m3 EXCEPT !.line.toks = <<>>]
        f_visitor == Returned(m4, ret, "FieldVisitor")
        m5 == CallRet(m4, "visit_field", <<name, get_flags(fl.flags), descriptor, value>>,
                      f_visitor)
        m6 == ThenPublish(m5)
    IN IF vt # "none" THEN Raise(m1, vt)
       ELSE IF fl.eol THEN _throw_eol(m2)
       ELSE IF Len(parts) # 2 THEN Raise(m3, "ValueError")
       ELSE IF vd # "none" THEN Raise(m3, vd)
       ELSE IF ~Ok(m6) THEN m6
       ELSE Push(m6, IF Truthy(f_visitor) THEN f_visitor ELSE EMPTY_FIELDV)

\* a variant of _handle_end that pops the frame and calls no visit_end
_handle_end_Silent(m) ==
  IF m.stack = <<>> THEN Raise(m, "IndexError") ELSE Pop(m)

\* a variant of _handle_end that does not tell the no-op instances from a
\* consumer's scope
_handle_end_Untested(m) ==
  IF m.stack = <<>> THEN Raise(m, "IndexError")
  ELSE LET visitor == Top(m)
           m1 == Pop(m)
       IN IF Truthy(visitor)
          THEN [m1 EXCEPT !.ev = Append(@, Event(visitor, "visit_end", <<>>, None))]
          ELSE m1

\* SmaliReader._handle_end
_handle_end(m) ==
  IF m.stack = <<>> THEN Raise(m, "IndexError")
  ELSE
    LET visitor == Top(m)
        m1 == Pop(m)
    IN IF Truthy(visitor) /\ visitor \notin {EMPTY_ANNOV, EMPTY_FIELDV, EMPTY_METHV}
       THEN [m1 EXCEPT !.ev = Append(@, Event(visitor, "visit_end", <<>>, None))]
       ELSE m1

\* SmaliReader._handle_method
_handle_method(m, ret) ==
  IF ~HasNext(m) THEN _throw_eol(m)
  ELSE
    LET m1 == Adv(m)
        vt == _validate_token(Cur(m), Token_METHOD)
        fl == _read_access_flags(m1.line.toks)
        m2 == [m1 EXCEPT !.line.toks = fl.toks]
        signature == Cur(m2)
        m_visitor == Returned(m2, ret, "MethodVisitor")
        m3 == CallRet(m2, "visit_method",
                      <<get_method_name(signature), get_flags(fl.flags),
                        get_method_params(signature), get_method_return_type(signature)>>,
                      m_visitor)
    IN IF vt # "none" THEN Raise(m1, vt)
       ELSE IF fl.eol THEN _throw_eol(m2)
       ELSE IF m2.stack = <<>> THEN Raise(m2, "IndexError")
       ELSE IF "visit_method" \notin Methods(Top(m2).cls) THEN Raise(m2, "AttributeError")
       ELSE IF ~MethodSignatureOk(signature) THEN Raise(m2, "TypeError")
       ELSE _publish_comment(Push(m3, IF Truthy(m_visitor) THEN m_visitor ELSE EMPTY_METHV))

\* SmaliReader._handle_annotation
_handle_annotation(m, ret) ==
  IF ~HasNext(m) THEN _throw_eol(m)
  ELSE
    LET m1 == Adv(m)
        vt == _validate_token(Cur(m), Token_ANNOTATION)
        fl == _read_access_flags(m1.line.toks)
        m2 == [m1 EXCEPT !.line.toks = fl.toks]
        descriptor == Cur(m2)
        vd == _validate_descriptor(descriptor)
        a_visitor == Returned(m2, ret, "AnnotationVisitor")
        m3 == CallRet(m2, "visit_annotation", <<get_flags(fl.flags), descriptor>>, a_visitor)
    IN IF vt # "none" THEN Raise(m1, vt)
       ELSE IF fl.eol THEN _throw_eol(m2)
       ELSE IF vd # "none" THEN Raise(m2, vd)
       ELSE IF ~Ok(m3) THEN m3
       ELSE _publish_comment(Push(m3, IF Truthy(a_visitor) THEN a_visitor ELSE EMPTY_ANNOV))

\* the value name the annotation handlers cut from the cleaned line:
\* cleaned[cleaned.find(' '):]
NameOf(cleaned) == PyFrom(cleaned, Find(cleaned, <<" ">>))

\* SmaliReader._handle_subannotation
_handle_subannotation(m, ret) ==
  LET name == NameOf(m.line.cleaned)
      fl == _read_access_flags(m.line.toks)
      m2 == [m EXCEPT !.line.toks = fl.toks]
      descriptor == Cur(m2)
      vd == _validate_descriptor(descriptor)
      asks == Truthy(Top(m2)) /\ Top(m2) # EMPTY_ANNOV
      a_visitor == IF asks THEN Returned(m2, ret, "AnnotationVisitor") ELSE EMPTY_ANNOV
      m3 == IF asks
            THEN CallRet(m2, "visit_subannotation",
                         <<name, get_flags(fl.flags), descriptor>>, a_visitor)
            ELSE m2
  IN IF fl.eol THEN _throw_eol(m2)
     ELSE IF vd # "none" THEN Raise(m2, vd)
     ELSE IF m2.stack = <<>> THEN Raise(m2, "IndexError")
     ELSE IF ~Ok(m3) THEN m3
     ELSE _publish_comment(Push(m3, a_visitor))

\* SmaliReader._handle_enum
_handle_enum(m) ==
  IF ~HasNext(m) THEN _throw_eol(m)
  ELSE
    LET name == NameOf(m.line.cleaned)
        m1 == Adv(m)
        vt == _validate_token(Cur(m), Token_ENUM)
        parts == Split(Cur(m1), <<"-", ">">>)
        descriptor == parts[1]
        vd == _validate_descriptor(descriptor)
        vparts == Split(parts[2], <<":">>)
        val_descriptor == vparts[2]
        vvd == _validate_descriptor(val_descriptor)
        val_name == LStripSet(RStripSet(vparts[1], {">"}), {"<"})
    IN IF vt # "none" THEN Raise(m1, vt)
       ELSE IF ~HasNext(m1) THEN _throw_eol(m1)
       ELSE IF Len(parts) # 2 THEN Raise(m1, "ValueError")
       ELSE IF vd # "none" THEN Raise(m1, vd)
       ELSE IF Len(vparts) # 2 THEN Raise(m1, "ValueError")
       ELSE IF vvd # "none" THEN Raise(m1, vvd)
       ELSE IF m1.stack = <<>> THEN Raise(m1, "IndexError")
       ELSE IF Truthy(Top(m1)) /\ Top(m1) # EMPTY_ANNOV
       THEN Call(m1, "visit_enum", <<name, descriptor, val_name, val_descriptor>>)
       ELSE m1

\* the top of the stack is a visitor that takes calls: not None, not EMPTY_METHV
LiveMethod(m) == Truthy(Top(m)) /\ Top(m) # EMPTY_METHV
\* the same for annotation values: not None, not EMPTY_ANNOV
LiveAnnotation(m) == Truthy(Top(m)) /\ Top(m) # EMPTY_ANNOV

\* SmaliReader._handle_param
_handle_param(m) ==
  IF ~LiveMethod(m) THEN m
  ELSE
    LET m1 == Adv(m)
        m2 == Adv(m1)
    IN IF ~HasNext(m1) THEN Raise(m1, "StopIteration")
       ELSE IF ~HasNext(m2) THEN Raise(m2, "StopIteration")
       ELSE ThenPublish(Call(m2, "visit_param",
                             <<Cur(m1), StripSet(Cur(m2), {"\""})>>))

\* SmaliReader._handle_method_int together with its callers _handle_line,
\* _handle_registers and _handle_locals, which look the visit method up first
_handle_method_int(m, token, call) ==
  IF Truthy(Top(m)) /\ call \notin Methods(Top(m).cls) THEN Raise(m, "AttributeError")
  ELSE
    LET m1 == Adv(m)
        vt == _validate_token(Cur(m), token)
    IN IF vt # "none" THEN Raise(m1, vt)
       ELSE IF ~HasNext(m1) THEN Raise(m1, "StopIteration")
       ELSE IF ~Truthy(Top(m1)) THEN m1
       ELSE IF ~IsInt(Cur(m1)) THEN Raise(m1, "ValueError")
       ELSE ThenPublish(Call(m1, call, <<IntOf(Cur(m1))>>))

\* SmaliReader._handle_block
_handle_block(m) ==
  IF m.stack = <<>> THEN Raise(m, "IndexError")
  ELSE IF ~Truthy(Top(m)) THEN m
  ELSE ThenPublish(Call(m, "visit_block", <<LStripSet(Cur(m), {":"})>>))

\* the text between the first '{' and the first '}' of the cleaned line:
\* cleaned[cleaned.find('{')+1 : cleaned.find('}')]
Braced(cleaned) == PySlice(cleaned, Find(cleaned, <<"{">>) + 1, Find(cleaned, <<"}">>))

\* SmaliReader._handle_catch and _handle_catchall
_handle_catch(m, is_catchall) ==
  IF ~LiveMethod(m) THEN m
  ELSE
    LET m1 == Adv(m)
        descriptor == Cur(m1)
        vd == _validate_descriptor(descriptor)
        range == Split(StripSet(Braced(m1.line.cleaned), Whitespace), <<" ">>)
        values == <<LStripSet(range[1], {":"}), LStripSet(range[3], {":"}),
                    LStripSet(last(m1.line), {":"})>>
    IN IF ~HasNext(m1) THEN Raise(m1, "StopIteration")
       ELSE IF vd # "none" THEN Raise(m1, vd)
       ELSE IF Len(range) # 3 THEN Raise(m1, "ValueError")
       ELSE ThenPublish(Call(m1, IF is_catchall THEN "visit_catchall" ELSE "visit_catch",
                             <<descriptor, values>>))

\* a variant of _handle_instruction that takes every mnemonic that starts
\* with goto for a goto
_handle_instruction_GotoPrefix(m) ==
  IF ~LiveMethod(m) THEN m
  ELSE
    LET instruction == Cur(m)
        m1 == Adv(m)
        sub_ins == IF ~Contains(instruction, <<"-">>) THEN <<>>
                   ELSE PyFrom(instruction, Find(instruction, <<"-">>) + 1)
        args == MapStrip(Split(Braced(m1.line.cleaned), <<",">>))
        sig == Split(last(m1.line), <<"-", ">">>)
        vd == _validate_descriptor(sig[1])
        cv == _collect_values(m1, {","})
    IN IF StartsWith(instruction, INVOKE)
       THEN IF Len(sig) # 2 THEN Raise(m1, "ValueError")
            ELSE IF vd # "none" THEN Raise(m1, vd)
            ELSE ThenPublish(Call(m1, "visit_invoke", <<sub_ins, args, sig[1], sig[2]>>))
       ELSE IF StartsWith(instruction, RETURN)
       THEN IF ~Ok(cv.m) THEN cv.m
            ELSE ThenPublish(Call(cv.m, "visit_return", <<sub_ins, cv.values>>))
       ELSE IF StartsWith(instruction, GOTO)
       THEN IF ~HasNext(m1) THEN Raise(m1, "StopIteration")
            ELSE ThenPublish(Call(m1, "visit_goto", <<LStripSet(Cur(m1), {":"})>>))
       ELSE IF ~Ok(cv.m) THEN cv.m
            ELSE ThenPublish(Call(cv.m, "visit_instruction", <<instruction, cv.values>>))

\* SmaliReader._handle_instruction
_handle_instruction(m) ==
  IF ~LiveMethod(m) THEN m
  ELSE
    LET instruction == Cur(m)
        m1 == Adv(m)
        sub_ins == IF ~Contains(instruction, <<"-">>) THEN <<>>
                   ELSE PyFrom(instruction, Find(instruction, <<"-">>) + 1)
        args == MapStrip(Split(Braced(m1.line.cleaned), <<",">>))
        sig == Split(last(m1.line), <<"-", ">">>)
        vd == _validate_descriptor(sig[1])
        cv == _collect_values(m1, {","})
    IN IF StartsWith(instruction, INVOKE)
       THEN IF Len(sig) # 2 THEN Raise(m1, "ValueError")
            ELSE IF vd # "none" THEN Raise(m1, vd)
            ELSE ThenPublish(Call(m1, "visit_invoke", <<sub_ins, args, sig[1], sig[2]>>))
       ELSE IF StartsWith(instruction, RETURN)
       THEN IF ~Ok(cv.m) THEN cv.m
            ELSE ThenPublish(Call(cv.m, "visit_return", <<sub_ins, cv.values>>))
       ELSE IF instruction = GOTO
       THEN IF ~HasNext(m1) THEN Raise(m1, "StopIteration")
            ELSE ThenPublish(Call(m1, "visit_goto", <<LStripSet(Cur(m1), {":"})>>))
       ELSE IF ~Ok(cv.m) THEN cv.m
            ELSE ThenPublish(Call(cv.m, "visit_instruction", <<instruction, cv.values>>))

\* a handler stops at the _next_line() of its block: visit() waits at p
WaitAt(m, p, l) == IF Ok(m) THEN [m EXCEPT !.pc = p, !.loc = l] ELSE m

\* SmaliReader._handle_packed_switch up to its first _next_line()
_handle_packed_switch(m) ==
  LET m1 == Adv(m)
  IN IF ~HasNext(m1) THEN Raise(m1, "StopIteration")
     ELSE WaitAt(_publish_comment(m1), "packed_switch", [NoLoc EXCEPT !.value = Cur(m1)])

\* SmaliReader._handle_array_data up to its _next_line()
_handle_array_data(m) ==
  LET m1 == Adv(m)
  IN IF ~HasNext(m1) THEN Raise(m1, "StopIteration")
     ELSE WaitAt(_publish_comment(m1), "array_data", [NoLoc EXCEPT !.value = Cur(m1)])

\* SmaliReader._handle_sparse_switch up to its _next_line()
_handle_sparse_switch(m) ==
  WaitAt(_publish_comment(Adv(m)), "sparse_switch", NoLoc)

\* SmaliReader._handle_local
_handle_local(m) ==
  IF ~LiveMethod(m) THEN m
  ELSE
    LET cv == _collect_values(Adv(m), Whitespace)
        values == cv.values
        parts == Split(values[2], <<":">>)
        vd == _validate_descriptor(parts[2])
        vf == _validate_descriptor(values[3])
    IN IF ~Ok(cv.m) THEN cv.m
       ELSE IF Len(values) # 3 /\ validate THEN Raise(cv.m, "SyntaxError")
       ELSE IF Len(values) < 2 THEN Raise(cv.m, "IndexError")
       ELSE IF Len(parts) # 2 THEN Raise(cv.m, "ValueError")
       ELSE IF Len(values) < 3 THEN Raise(cv.m, "IndexError")
       ELSE IF vd # "none" THEN Raise(cv.m, vd)
       ELSE IF vf # "none" THEN Raise(cv.m, vf)
       ELSE ThenPublish(Call(cv.m, "visit_local",
              <<values[1], StripSet(parts[1], {"\""}), parts[2], values[3]>>))

\* SmaliReader._handle_prologue
_handle_prologue(m) ==
  IF LiveMethod(m) THEN ThenPublish(Call(m, "visit_prologue", <<>>)) ELSE m

\* SmaliReader._handle_restart
_handle_restart(m) ==
  IF LiveMethod(m) THEN Call(m, "visit_restart", <<last(m.line)>>) ELSE m

\* the names of the _handle_<token> methods whose token holds a '-'
Handler_packed_switch == <<"p","a","c","k","e","d","_","s","w","i","t","c","h">>
Handler_sparse_switch == <<"s","p","a","r","s","e","_","s","w","i","t","c","h">>
Handler_array_data == <<"a","r","r","a","y","_","d","a","t","a">>

RECURSIVE Underscored(_)
\* statement.replace("-", "_")
Underscored(s) ==
  IF s = <<>> THEN <<>>
  ELSE <<IF Head(s) = "-" THEN "_" ELSE Head(s)>> \o Underscored(Tail(s))

\* isinstance(visitor, cls)
IsInstance(v, cls) == v.cls = cls

\* SmaliReader._handle_token
_handle_token(m, ret) ==
  IF m.stack = <<>> THEN Raise(m, "IndexError")
  ELSE
    LET statement == Tail(Cur(m))
        m0 == IF IsInstance(Top(m), "FieldVisitor")
                 /\ statement \notin {Token_ANNOTATION, Token_END}
              THEN Pop(m) ELSE m
        method == Underscored(statement)
    IN IF statement = Token_IMPLEMENTS
       THEN LET m1 == Adv(m0)
                vd == _validate_descriptor(Cur(m1))
            IN IF m1.stack = <<>> THEN Raise(m1, "IndexError")
               ELSE IF ~Truthy(Top(m1)) THEN m1
               ELSE IF ~HasNext(m1) THEN Raise(m1, "StopIteration")
               ELSE IF vd # "none" THEN Raise(m1, vd)
               ELSE ThenPublish(Call(m1, "visit_implements", <<Cur(m1)>>))
       ELSE IF statement = Token_CLASS
       THEN LET r == _class_def(m0, TRUE, ret)
            IN IF Ok(r.m) THEN Push(r.m, r.c_visitor) ELSE r.m
       ELSE IF method = Token_SUPER THEN _handle_super(m0)
       ELSE IF method = Token_SOURCE THEN _handle_source(m0)
       ELSE IF method = Token_FIELD THEN _handle_field(m0, ret)
       ELSE IF method = Token_END THEN _handle_end(m0)
       ELSE IF method = Token_METHOD THEN _handle_method(m0, ret)
       ELSE IF method = Token_ANNOTATION THEN _handle_annotation(m0, ret)
       ELSE IF method = Token_SUBANNOTATION THEN _handle_subannotation(m0, ret)
       ELSE IF method = Token_ENUM THEN _handle_enum(m0)
       ELSE IF method = Token_PARAM THEN _handle_param(m0)
       ELSE IF method = Token_LINE THEN _handle_method_int(m0, Token_LINE, "visit_line")
       ELSE IF method = Token_REGISTERS
       THEN _handle_method_int(m0, Token_REGISTERS, "visit_registers")
       ELSE IF method = Token_LOCALS THEN _handle_method_int(m0, Token_LOCALS, "visit_locals")
       ELSE IF method = Token_CATCH THEN _handle_catch(m0, FALSE)
       ELSE IF method = Token_CATCHALL THEN _handle_catch(m0, TRUE)
       ELSE IF method = Handler_packed_switch THEN _handle_packed_switch(m0)
       ELSE IF method = Handler_array_data THEN _handle_array_data(m0)
       ELSE IF method = Handler_sparse_switch THEN _handle_sparse_switch(m0)
       ELSE IF method = Token_LOCAL THEN _handle_local(m0)
       ELSE IF method = Token_PROLOGUE THEN _handle_prologue(m0)
       ELSE IF method = Token_RESTART THEN _handle_restart(m0)
       ELSE Raise(m0, "AttributeError")

\* SmaliReader._handle_value, up to the _next_line() of an array that is not
\* closed on its line
_handle_value(m, ret) ==
  LET val_name == Cur(m)
      m1 == Adv(m)
      m2 == Adv(m1)
      statement == Cur(m2)
      cleaned == m2.line.cleaned
  IN IF ~HasNext(m1) THEN Raise(m1, "StopIteration")
     ELSE IF ~HasNext(m2) THEN Raise(m2, "StopIteration")
     ELSE IF statement = <<>> THEN Raise(m2, "IndexError")
     ELSE IF statement[1] = "." THEN _handle_token(m2, ret)
     ELSE IF Contains(cleaned, <<"{">>)
     THEN IF Contains(cleaned, <<"}">>)
          THEN IF LiveAnnotation(m2)
               THEN Call(m2, "visit_array",
                         <<val_name, MapStrip(Split(Braced(cleaned), <<",">>))>>)
               ELSE m2
          ELSE WaitAt(_publish_comment(m2), "value_array", [NoLoc EXCEPT !.name = val_name])
     ELSE IF LiveAnnotation(m2) THEN Call(m2, "visit_value", <<val_name, statement>>)
     ELSE m2

\* values[key] = label on a dict kept as a sequence of <<key, label>> pairs
DictSet(d, key, label) ==
  IF \E i \in 1..Len(d) : d[i][1] = key
  THEN [i \in 1..Len(d) |-> IF d[i][1] = key THEN <<key, label>> ELSE d[i]]
  ELSE Append(d, <<key, label>>)

\* value[0] == '.' and value[1:] == Token.END.value
IsEndToken(value) == value[1] = "." /\ Tail(value) = Token_END

\* a variant of Leave that takes the line that ends the block for an .end
\* statement and pops a frame
Leave_Popping(m) ==
  IF Ok(m)
  THEN [m EXCEPT !.pc = "do_visit", !.loc = NoLoc, !.stack = SubSeq(@, 1, Len(@) - 1)]
  ELSE m

\* a block handler leaves its loop: visit() is back in the drive loop
Leave(m) == IF Ok(m) THEN [m EXCEPT !.pc = "do_visit", !.loc = NoLoc] ELSE m

\* a variant of PackedSwitchLine that puts each label before those it holds
PackedSwitchLine_Prepending(m) ==
  LET next_value == Cur(m)
      m1 == _publish_comment(Adv(m))
  IN IF ~Ok(m1) THEN m1
     ELSE IF next_value = <<>> THEN Raise(m1, "IndexError")
     ELSE IF next_value[1] = ":"
     THEN [m1 EXCEPT !.loc.values = <<LStripSet(next_value, {":"})>> \o @]
     ELSE IF Contains(next_value, Token_END)
     THEN IF m1.stack = <<>> THEN Raise(m1, "IndexError")
          ELSE IF LiveMethod(m1)
          THEN Leave(Call(m1, "visit_packed_switch", <<m1.loc.value, m1.loc.values>>))
          ELSE Leave(m1)
     ELSE m1

\* one run of the loop body of SmaliReader._handle_packed_switch, on the line
\* _next_line() has just delivered
PackedSwitchLine(m) ==
  LET next_value == Cur(m)
      m1 == _publish_comment(Adv(m))
  IN IF ~Ok(m1) THEN m1
     ELSE IF next_value = <<>> THEN Raise(m1, "IndexError")
     ELSE IF next_value[1] = ":"
     THEN [m1 EXCEPT !.loc.values = Append(@, LStripSet(next_value, {":"}))]
     ELSE IF Contains(next_value, Token_END)
     THEN IF m1.stack = <<>> THEN Raise(m1, "IndexError")
          ELSE IF LiveMethod(m1)
          THEN Leave(Call(m1, "visit_packed_switch", <<m1.loc.value, m1.loc.values>>))
          ELSE Leave(m1)
     ELSE m1

\* one run of the loop body of SmaliReader._handle_sparse_switch on the
\* current line; the loop reads no further line
SparseSwitchPass(m) ==
  LET key == Cur(m)
      m1 == _publish_comment(m)
  IN IF ~Ok(m1) THEN m1
     ELSE IF key = <<>> THEN Raise(m1, "IndexError")
     ELSE IF IsEndToken(key)
     THEN IF m1.stack = <<>> THEN Raise(m1, "IndexError")
          ELSE IF LiveMethod(m1)
          THEN Leave(ThenPublish(Call(m1, "visit_sparse_switch", <<m1.loc.values>>)))
          ELSE Leave(m1)
     ELSE [m1 EXCEPT !.loc.values = DictSet(@, key, LStripSet(last(m1.line), {":"})),
                     !.loc.passes = @ + 1,
                     !.pc = "sparse_switch_loop"]

\* one run of the loop body of SmaliReader._handle_array_data on the current
\* line; the loop reads no further line
ArrayDataPass(m) ==
  LET value == Cur(m)
      m1 == _publish_comment(m)
  IN IF ~Ok(m1) THEN m1
     ELSE IF value = <<>> THEN Raise(m1, "IndexError")
     ELSE IF IsEndToken(value)
     THEN IF m1.stack = <<>> THEN Raise(m1, "IndexError")
          ELSE IF LiveMethod(m1)
          THEN Leave(Call(m1, "visit_array_data", <<m1.loc.value, m1.loc.values>>))
          ELSE Leave(m1)
     ELSE [m1 EXCEPT !.loc.values = Append(@, value),
                     !.loc.passes = @ + 1,
                     !.pc = "array_data_loop"]

\* a variant of ValueArrayLine that keeps the comma at the end of a value
ValueArrayLine_KeepingComma(m) ==
  LET cleaned == m.line.cleaned
      m1 == _publish_comment(m)
  IN IF cleaned = <<>> THEN Raise(m, "IndexError")
     ELSE IF cleaned[Len(cleaned)] # "}" /\ cleaned[1] # "}"
     THEN IF Ok(m1)
          THEN [m1 EXCEPT !.loc.values = Append(@, Cur(m))]
          ELSE m1
     ELSE IF m.stack = <<>> THEN Raise(m, "IndexError")
     ELSE IF LiveAnnotation(m)
     THEN Leave(Call(m, "visit_array", <<m.loc.name, m.loc.values>>))
     ELSE Leave(m)

\* the loop of SmaliReader._handle_value over the lines of an array, on the
\* line _next_line() has just delivered
ValueArrayLine(m) ==
  LET cleaned == m.line.cleaned
      m1 == _publish_comment(m)
  IN IF cleaned = <<>> THEN Raise(m, "IndexError")
     ELSE IF cleaned[Len(cleaned)] # "}" /\ cleaned[1] # "}"
     THEN IF Ok(m1)
          THEN [m1 EXCEPT !.loc.values = Append(@, RStripSet(Cur(m), {","}))]
          ELSE m1
     ELSE IF m.stack = <<>> THEN Raise(m, "IndexError")
     ELSE IF LiveAnnotation(m)
     THEN Leave(Call(m, "visit_array", <<m.loc.name, m.loc.values>>))
     ELSE Leave(m)

\* a variant of DoVisitLine that hands every line of no annotation scope that
\* starts with no '.' and no ':' to _handle_instruction
DoVisitLine_InstructionElse(m, ret) ==
  IF m.line.cleaned = <<>> THEN m
  ELSE
    LET statement == Cur(m)
    IN IF statement[1] = "." THEN _handle_token(m, ret)
       ELSE IF statement[1] = ":" THEN _handle_block(m)
       ELSE IF m.stack = <<>> THEN Raise(m, "IndexError")
       ELSE IF IsInstance(Top(m), "AnnotationVisitor") THEN _handle_value(m, ret)
       ELSE _handle_instruction(m)

\* the body of the loop of SmaliReader._do_visit on a line that is no comment
DoVisitLine(m, ret) ==
  IF m.line.cleaned = <<>> THEN m
  ELSE
    LET statement == Cur(m)
    IN IF statement[1] = "." THEN _handle_token(m, ret)
       ELSE IF statement[1] = ":" THEN _handle_block(m)
       ELSE IF m.stack = <<>> THEN Raise(m, "IndexError")
       ELSE IF IsInstance(Top(m), "AnnotationVisitor") THEN _handle_value(m, ret)
       ELSE IF IsInstance(Top(m), "MethodVisitor") THEN _handle_instruction(m)
       ELSE m

\* the statements that open a scope: _handle_token pushes a frame for them
ScopeOpening ==
  {Token_CLASS, Token_FIELD, Token_METHOD, Token_ANNOTATION, Token_SUBANNOTATION}

\* the token of the line if the drive loop hands the line to _handle_token
DispatchedToken(m) ==
  LET toks == m.line.toks
  IN IF toks # <<>> /\ toks[1] # <<>> /\ toks[1][1] = "." THEN Tail(toks[1]) ELSE <<>>

\* the token _handle_token is called for on the line: the line's own, or the
\* value of the `name = value` line of an annotation scope
HandledToken(m) ==
  LET toks == m.line.toks
  IN IF DispatchedToken(m) # <<>> THEN DispatchedToken(m)
     ELSE IF /\ toks # <<>> /\ toks[1] # <<>> /\ toks[1][1] # ":"
             /\ m.stack # <<>> /\ IsInstance(Top(m), "AnnotationVisitor")
             /\ Len(toks) >= 3 /\ toks[3] # <<>> /\ toks[3][1] = "."
     THEN Tail(toks[3])
     ELSE <<>>

\* the field scope on top of the stack is closed by the statement of the line
\* (the isinstance test of _handle_token)
ClosesField(m) ==
  /\ DispatchedToken(m) # <<>>
  /\ m.stack # <<>>
  /\ IsInstance(Top(m), "FieldVisitor")
  /\ DispatchedToken(m) \notin {Token_ANNOTATION, Token_END}

\* nothing dispatched yet
NoTally ==
  [opening |-> 0, ends |-> 0, pushed |-> 0, closed |-> 0, popped |-> 0,
   balanced |-> TRUE, matched |-> TRUE, before |-> <<>>]

\* the tally after the drive loop has run the statement of the line of m and
\* ended in after: opening and ends count the statements dispatched by their
\* token, pushed the scope-opening statements that left a frame on the stack,
\* closed the field scopes closed by a following statement, popped the `.end`
\* tokens handled; balanced and matched tell whether the `.end` have stayed
\* within the openings at every statement so far, by statements and by frames;
\* before is the stack as it was when the line of the statement was read
Count(m, after) ==
  LET opening == tally.opening + IF DispatchedToken(m) \in ScopeOpening THEN 1 ELSE 0
      ends == tally.ends + IF DispatchedToken(m) = Token_END THEN 1 ELSE 0
      closed == tally.closed + IF ClosesField(m) THEN 1 ELSE 0
      below == Len(m.stack) - IF ClosesField(m) THEN 1 ELSE 0
      pushed == tally.pushed + IF /\ HandledToken(m) \in ScopeOpening
                                  /\ Ok(after)
                                  /\ Len(after.stack) = below + 1
                               THEN 1 ELSE 0
      popped == tally.popped + IF HandledToken(m) = Token_END THEN 1 ELSE 0
  IN [opening |-> opening, ends |-> ends, pushed |-> pushed, closed |-> closed,
      popped |-> popped,
      balanced |-> tally.balanced /\ ends <= opening,
      matched |-> tally.matched /\ popped + closed <= pushed,
      before |-> m.stack]

\* raw_line.strip().startswith('#') in SmaliReader._next_line
IsCommentLine(raw) == StartsWith(StripSet(raw, Whitespace), <<"#">>)

\* SmaliReader._next_line on a comment line: the comment goes to the visitor
CommentLine(m) ==
  IF m.stack = <<>> THEN Raise(m, "IndexError")
  ELSE IF Truthy(Top(m)) /\ comments THEN Call(m, "visit_comment", m.line.eol_comment)
  ELSE m

\* a variant of AtEof that returns without the final visit_end
AtEof_Silent(m) ==
  IF m.stack = <<>> THEN Raise(m, "IndexError")
  ELSE IF ~Truthy(Top(m)) THEN Raise(m, "AttributeError")
  ELSE [m EXCEPT !.pc = "returned", !.loc = NoLoc]

\* the except EOFError of SmaliReader._do_visit
AtEof(m) == LET m1 == Call(m, "visit_end", <<>>)
            IN IF Ok(m1) THEN [m1 EXCEPT !.pc = "returned", !.loc = NoLoc] ELSE m1

(***************************************************************************)
(* The sources.  A line is read with its line break.  A source is given in *)
(* full (a unit: open is FALSE), or it is a stream that starts with the    *)
(* given lines and goes on with at most `left` lines of LineTexts; eof is  *)
(* set once readline() has returned the empty line of the end of stream.   *)
(***************************************************************************)
NL(text) == text \o <<"\n">>

L_class == <<".","c","l","a","s","s"," ","p","u","b","l","i","c"," ","L","c","o","m","/","E","x","a","m","p","l","e",";">>
L_super == <<".","s","u","p","e","r"," ","L","j","a","v","a","/","l","a","n","g","/","O","b","j","e","c","t",";">>
L_method == <<".","m","e","t","h","o","d"," ","p","u","b","l","i","c"," ","c","o","n","s","t","r","u","c","t","o","r"," ","<","i","n","i","t",">","(",")","V">>
L_registers == <<".","r","e","g","i","s","t","e","r","s"," ","1">>
L_end_method == <<".","e","n","d"," ","m","e","t","h","o","d">>
L_field == <<".","f","i","e","l","d"," ","p","r","i","v","a","t","e"," ","f","i","n","a","l"," ","f","o","o",":","I"," ","="," ","0","x","5">>
L_annotation == <<".","a","n","n","o","t","a","t","i","o","n"," ","r","u","n","t","i","m","e"," ","L","a","/","B",";">>
L_subannotation == <<".","s","u","b","a","n","n","o","t","a","t","i","o","n"," ","L","a","/","C",";">>
L_value_subannotation == <<"s","u","b"," ","="," ",".","s","u","b","a","n","n","o","t","a","t","i","o","n"," ","L","a","/","C",";">>
L_inner_class == <<".","c","l","a","s","s"," ","L","c","o","m","/","E","x","a","m","p","l","e","$","I","n",";">>
L_end == <<".","e","n","d">>
L_source == <<".","s","o","u","r","c","e"," ","\"","E","x","a","m","p","l","e",".","j","a","v","a","\"">>
L_sparse_switch == <<".","s","p","a","r","s","e","-","s","w","i","t","c","h">>
L_sparse_key == <<"0","x","1"," ","-",">"," ",":","s","s","w","i","t","c","h","_","0">>
L_sparse_key2 == <<"0","x","2"," ","-",">"," ",":","s","s","w","i","t","c","h","_","1">>
L_end_sparse_switch == <<".","e","n","d"," ","s","p","a","r","s","e","-","s","w","i","t","c","h">>
L_array_data == <<".","a","r","r","a","y","-","d","a","t","a"," ","4">>
L_array_elem == <<"0","x","1","0">>
L_array_elem2 == <<"0","x","2","0">>
L_end_array_data == <<".","e","n","d"," ","a","r","r","a","y","-","d","a","t","a">>
L_packed_switch == <<".","p","a","c","k","e","d","-","s","w","i","t","c","h"," ","0","x","0">>
L_label == <<":","p","s","w","i","t","c","h","_","0">>
L_label2 == <<":","p","s","w","i","t","c","h","_","1">>
L_end_packed_switch == <<".","e","n","d"," ","p","a","c","k","e","d","-","s","w","i","t","c","h">>
L_blank == <<" "," ">>
L_comment == <<"#"," ","a"," ","c","o","m","m","e","n","t">>
L_registers_eol == <<".","r","e","g","i","s","t","e","r","s">>
L_param_eol == <<".","p","a","r","a","m"," ","p","1">>
L_catch_eol == <<".","c","a","t","c","h">>
L_value_eol == <<"n","a","m","e"," ","=">>
L_goto_eol == <<"g","o","t","o">>
L_method_eol == <<".","m","e","t","h","o","d"," ","p","u","b","l","i","c">>
L_field_eol == <<".","f","i","e","l","d"," ","p","r","i","v","a","t","e">>
L_annotation_eol == <<".","a","n","n","o","t","a","t","i","o","n">>
L_class_eol == <<".","c","l","a","s","s">>
L_value == <<"n","a","m","e"," ","="," ","0","x","1">>
L_return == <<"r","e","t","u","r","n","-","v","o","i","d">>
L_value_array == <<"n","a","m","e"," ","="," ","{">>
L_array_close == <<"}">>
L_const == <<"c","o","n","s","t","/","4"," ","v","0",","," ","0","x","1"," ","#"," ","o","n","e">>

\* lines of the units below: operands that are no type descriptors, a
\* signature without parentheses, an .end with a comment at its end
L_super_bad == <<".","s","u","p","e","r"," ","O","b","j","e","c","t">>
L_catch_bad == <<".","c","a","t","c","h"," ","F","o","o"," ","{",":","a"," ",".","."," ",":","b","}"," ",":","c">>
L_field_bad == <<".","f","i","e","l","d"," ","a",":","F","o","o">>
L_implements_bad == <<".","i","m","p","l","e","m","e","n","t","s"," ","F","o","o">>
L_method_bad == <<".","m","e","t","h","o","d"," ","p","u","b","l","i","c"," ","f","o","o">>
L_end_method_eol == <<".","e","n","d"," ","m","e","t","h","o","d"," ","#"," ","d","o","n","e">>

\* instruction lines: an invoke, a goto with its label, a goto of another
\* width, a return of a register, an instruction with a hyphen in its mnemonic
L_invoke == <<"i","n","v","o","k","e","-","v","i","r","t","u","a","l"," ","{","p","0",","," ","v","0","}",","," ","L","a","/","B",";","-",">","r","u","n","(","I",")","V">>
L_goto == <<"g","o","t","o"," ",":","g","o","t","o","_","0">>
L_goto_16 == <<"g","o","t","o","/","1","6"," ",":","g","o","t","o","_","0">>
L_return_value == <<"r","e","t","u","r","n"," ","v","0">>
L_move_result == <<"m","o","v","e","-","r","e","s","u","l","t"," ","v","0">>
\* invoke lines whose last token has no -> and whose class is no descriptor
L_invoke_bad == <<"i","n","v","o","k","e","-","s","t","a","t","i","c"," ","{","}",","," ","L","a","/","B",";">>
L_invoke_named == <<"i","n","v","o","k","e","-","s","t","a","t","i","c"," ","{","}",","," ","F","o","o","-",">","r","u","n","(",")","V">>

\* lines of an array of an annotation: two value lines, a closing line that
\* holds a value before its brace, the end of the annotation
L_array_item == <<"\"","a","\"",",">>
L_array_item2 == <<"b",","," ","c">>
L_array_last == <<"\"","z","\""," ","}">>
L_end_annotation == <<".","e","n","d"," ","a","n","n","o","t","a","t","i","o","n">>

\* the lines an open stream delivers
LineTexts ==
  { L_class, L_super, L_method, L_registers, L_end_method, L_field, L_annotation,
    L_subannotation, L_value_subannotation, L_inner_class, L_end, L_source,
    L_sparse_switch, L_sparse_key, L_end_sparse_switch,
    L_array_data, L_array_elem, L_end_array_data,
    L_packed_switch, L_label, L_end_packed_switch,
    L_blank, L_comment,
    L_registers_eol, L_param_eol, L_catch_eol, L_value_eol, L_goto_eol,
    L_method_eol, L_field_eol, L_annotation_eol, L_class_eol,
    L_value, L_value_array, L_array_close, L_return, L_const }

\* labels, keys and elements a block of a unit lists
MaxBlock == 2

RECURSIVE Lines(_)
\* the lines of a text, each with its line break
Lines(texts) == IF texts = <<>> THEN <<>> ELSE <<NL(Head(texts))>> \o Lines(Tail(texts))

\* the minimal unit: a class, its super class, one method with a register count
MinimalUnit == Lines(<<L_class, L_super, L_method, L_registers, L_end_method>>)

\* a method that holds one block: the opening line, n of the two body lines
\* in turn, the closing line
BlockBody(n, a, b) == [i \in 1..n |-> IF i % 2 = 1 THEN a ELSE b]
BlockUnit(open, a, b, close, n) ==
  Lines(<<L_class, L_method, open>> \o BlockBody(n, a, b) \o <<close, L_end_method>>)

PackedUnits ==
  {BlockUnit(L_packed_switch, L_label, L_label2, L_end_packed_switch, n) : n \in 0..MaxBlock}
SparseUnits ==
  {BlockUnit(L_sparse_switch, L_sparse_key, L_sparse_key2, L_end_sparse_switch, n) :
     n \in 0..MaxBlock}
ArrayUnits ==
  {BlockUnit(L_array_data, L_array_elem, L_array_elem2, L_end_array_data, n) :
     n \in 0..MaxBlock}

\* a class with a statement whose operand is no type descriptor, in the class
\* and in a method of it
MismatchUnits ==
  {Lines(<<L_class, L_super_bad>>), Lines(<<L_class, L_implements_bad>>),
   Lines(<<L_class, L_field_bad>>), Lines(<<L_class, L_method, L_catch_bad>>)}

\* a method whose signature has no parentheses, in a class and in a method
SignatureUnits ==
  {Lines(<<L_class, L_method_bad>>), Lines(<<L_class, L_method, L_method_bad>>)}

\* statements with a comment at the end of the line
CommentedUnits == {Lines(<<L_class, L_method, L_end_method_eol>>)}

\* an annotation that holds one array over several lines: the opening line,
\* n of the two value lines in turn, one of the two closing lines
ValueArrayUnits ==
  {Lines(<<L_class, L_annotation, L_value_array>> \o BlockBody(n, L_array_item, L_array_item2)
           \o <<close, L_end_annotation>>) :
     n \in 0..MaxBlock, close \in {L_array_close, L_array_last}}

\* a method that holds one instruction line
InstructionUnits ==
  {Lines(<<L_class, L_method, l, L_end_method>>) :
     l \in {L_invoke, L_goto, L_goto_16, L_return_value, L_move_result, L_return, L_const,
            L_goto_eol, L_invoke_bad, L_invoke_named}}

Units ==
  {MinimalUnit} \cup PackedUnits \cup SparseUnits \cup ArrayUnits
    \cup MismatchUnits \cup SignatureUnits \cup CommentedUnits \cup InstructionUnits
    \cup ValueArrayUnits

\* the starts of the open streams: nothing, a class, and a class with an open
\* method, field, annotation or inner class, with a method or the source
\* file after a field and with an array value begun in an annotation
Prefixes ==
  {<<>>, Lines(<<L_class>>), Lines(<<L_class, L_method>>), Lines(<<L_class, L_field>>),
   Lines(<<L_class, L_annotation>>), Lines(<<L_class, L_inner_class>>),
   Lines(<<L_class, L_field, L_method>>), Lines(<<L_class, L_field, L_source>>),
   Lines(<<L_class, L_annotation, L_value_array>>)}

\* what visit() is handed as its source: a text (str), a byte string, a
\* stream, a stream that is not readable, an object of another type, None
SourceKinds == {"str", "bytes", "stream", "unreadable", "object", "none"}

\* a source of a kind that holds the lines of a text
Holding(kind, text) ==
  [kind |-> kind, given |-> text, lines |-> text, open |-> FALSE, left |-> 0, eof |-> FALSE]

\* the sources visit() reads: the units as texts, the minimal unit as a byte
\* string too (its lines are decoded as they are read), the open streams
ReadSources ==
  {Holding("str", u) : u \in Units}
  \cup {Holding("bytes", MinimalUnit)}
  \cup {[kind |-> "stream", given |-> p, lines |-> p, open |-> TRUE, left |-> MaxLines,
          eof |-> FALSE] : p \in Prefixes}

\* the sources visit() refuses: the empty text and the empty byte string,
\* None, an object that is no stream, a stream that cannot be read
RefusedSources ==
  {Holding("str", <<>>), Holding("bytes", <<>>), Holding("none", <<>>),
   Holding("object", <<>>), Holding("unreadable", MinimalUnit)}

Sources == ReadSources \cup RefusedSources

\* the lines the sources hold, and Line.reset on each of them
Raws ==
  UNION {{u[i] : i \in 1..Len(u)} : u \in Units \cup Prefixes} \cup {NL(t) : t \in LineTexts}
LineOf == [raw \in Raws |-> reset(raw)]

\* source.readline(): the line read (empty at the end of the stream) and the
\* stream after it
Readline ==
  IF source.lines # <<>>
  THEN {[raw |-> Head(source.lines), src |-> [source EXCEPT !.lines = Tail(@)]]}
  ELSE {[raw |-> <<>>, src |-> [source EXCEPT !.left = 0, !.eof = TRUE]]}
       \cup IF source.left > 0
            THEN {[raw |-> NL(t), src |-> [source EXCEPT !.left = @ - 1]] : t \in LineTexts}
            ELSE {}

(***************************************************************************)
(* The steps of SmaliReader.visit: from one readline() to the next.         *)
(***************************************************************************)
Init ==
  /\ validate \in BOOLEAN
  /\ comments \in BOOLEAN
  /\ snippet \in BOOLEAN
  /\ errors \in {"strict", "ignore", "replace"}
  /\ source \in Sources
  /\ stack = <<>>
  /\ line = NoLine
  /\ pc = "idle"
  /\ loc = NoLoc
  /\ exc = "none"
  /\ events = <<>>
  /\ log = <<>>
  /\ tally = NoTally
  /\ cursor = Line_new
  /\ trial = NoTrial
  /\ query = NoQuery
  /\ visits = 0

\* the running state a step starts from, the line just read being raw
Start(raw) ==
  [stack |-> stack, line |-> IF raw \in Raws THEN LineOf[raw] ELSE reset(raw), ev |-> <<>>, exc |-> "none", pc |-> pc,
   loc |-> loc]

\* the running state of a step that reads no line
Resume == [stack |-> stack, line |-> line, ev |-> <<>>, exc |-> "none", pc |-> pc,
           loc |-> loc]

\* the step ends in m: an exception leaves visit(), as SyntaxError if it is
\* the StopIteration that _do_visit catches
Commit(m, src, fresh) ==
  /\ stack' = m.stack
  /\ line' = m.line
  /\ exc' = IF m.exc = "StopIteration" THEN UnexpectedEOL ELSE m.exc
  /\ pc' = IF Ok(m) THEN m.pc ELSE "failed"
  /\ loc' = IF Ok(m) THEN m.loc ELSE NoLoc
  /\ events' = IF fresh THEN m.ev ELSE events \o m.ev
  /\ log' = IF source.open THEN log ELSE log \o m.ev
  /\ source' = src
  /\ UNCHANGED <<validate, comments, snippet, errors, cursor, trial, query, visits>>

\* the root consumer handed to visit()
RootVisitor == NewScope(stack, "ClassVisitor")

\* the tests of SmaliReader.visit on its arguments, in their order: the
\* exception it raises before it takes the source, or "none"; the root
\* consumer is always given
Refusal ==
  IF source.kind = "none" \/ (source.kind \in {"str", "bytes"} /\ source.given = <<>>)
  THEN "ValueError"
  ELSE IF source.kind \notin {"str", "bytes", "stream", "unreadable"} THEN "TypeError"
  ELSE IF source.kind = "unreadable" THEN "ValueError"
  ELSE IF errors \notin {"ignore", "strict"} THEN "ValueError"
  ELSE "none"

\* a variant of Visit that reads a class definition whatever snippet is
Visit_WithClassDef ==
  /\ pc = "idle"
  /\ IF Refusal # "none"
     THEN /\ pc' = "failed"
          /\ exc' = Refusal
          /\ UNCHANGED stack
     ELSE /\ pc' = "class_def"
          /\ stack' = Append(stack, RootVisitor)
          /\ UNCHANGED exc
  /\ UNCHANGED <<validate, comments, snippet, errors, source, line, loc, events, log,
                 tally, cursor, trial, query>>
  /\ visits' = visits + 1

\* a variant of Visit that pushes the root consumer before it tests its
\* arguments
Visit_PushingFirst ==
  /\ pc = "idle"
  /\ stack' = Append(stack, RootVisitor)
  /\ IF Refusal # "none"
     THEN /\ pc' = "failed"
          /\ exc' = Refusal
     ELSE /\ pc' = IF snippet THEN "do_visit" ELSE "class_def"
          /\ UNCHANGED exc
  /\ UNCHANGED <<validate, comments, snippet, errors, source, line, loc, events, log,
                 tally, cursor, trial, query>>
  /\ visits' = visits + 1

\* SmaliReader.visit up to its first readline()
Visit ==
  /\ pc = "idle"
  /\ IF Refusal # "none"
     THEN /\ pc' = "failed"
          /\ exc' = Refusal
          /\ UNCHANGED stack
     ELSE /\ pc' = IF snippet THEN "do_visit" ELSE "class_def"
          /\ stack' = Append(stack, RootVisitor)
          /\ UNCHANGED exc
  /\ UNCHANGED <<validate, comments, snippet, errors, source, line, loc, events, log,
                 tally, cursor, trial, query>>
  /\ visits' = visits + 1

\* SmaliReader._class_def(next_line=True), called from visit(): at the end of
\* the stream it raises if validate is set and returns otherwise, and then
\* _do_visit meets the end of the stream
ClassDef ==
  /\ pc = "class_def"
  /\ \E r \in Readline, ret \in BOOLEAN :
       LET m == Start(r.raw)
           body == _class_def(m, FALSE, ret).m
       IN Commit(IF r.raw = <<>>
                 THEN IF validate THEN Raise(Resume, "SyntaxError") ELSE AtEof(Resume)
                 ELSE IF IsCommentLine(r.raw) THEN CommentLine(m)
                 ELSE IF Ok(body) THEN [body EXCEPT !.pc = "do_visit"] ELSE body,
                 r.src, TRUE)
  /\ UNCHANGED tally

\* one turn of the loop of SmaliReader._do_visit: _next_line() and the
\* handler of the statement, up to the next readline()
DoVisit ==
  /\ pc = "do_visit"
  /\ \E r \in Readline, ret \in BOOLEAN :
       LET m == Start(r.raw)
           statement == r.raw # <<>> /\ ~IsCommentLine(r.raw)
           after == DoVisitLine(m, ret)
       IN /\ Commit(IF r.raw = <<>> THEN AtEof(Resume)
                    ELSE IF IsCommentLine(r.raw) THEN CommentLine(m)
                    ELSE after,
                    r.src, TRUE)
          /\ tally' = IF statement THEN Count(m, after) ELSE tally

\* _next_line() inside a block handler: the end of the stream raises the
\* EOFError that _do_visit catches, a comment line goes to the visitor, and
\* the handler goes on with any other line and ends the step in after
BlockRead(r, after) ==
  IF r.raw = <<>> THEN AtEof(Resume)
  ELSE IF IsCommentLine(r.raw) THEN CommentLine(Start(r.raw))
  ELSE after

\* the running state of a block handler on the line it has just read
InBlock(raw) == [Start(raw) EXCEPT !.loc.reads = @ + 1, !.loc.passes = 0]

\* SmaliReader._handle_packed_switch: _next_line() and one run of the loop
PackedSwitch ==
  /\ pc = "packed_switch"
  /\ \E r \in Readline : Commit(BlockRead(r, PackedSwitchLine(InBlock(r.raw))), r.src, FALSE)
  /\ UNCHANGED tally

\* SmaliReader._handle_sparse_switch: its one _next_line() and the first run
\* of the loop
SparseSwitch ==
  /\ pc = "sparse_switch"
  /\ \E r \in Readline : Commit(BlockRead(r, SparseSwitchPass(InBlock(r.raw))), r.src, FALSE)
  /\ UNCHANGED tally

\* SmaliReader._handle_array_data: its one _next_line() and the first run of
\* the loop
ArrayData ==
  /\ pc = "array_data"
  /\ \E r \in Readline : Commit(BlockRead(r, ArrayDataPass(InBlock(r.raw))), r.src, FALSE)
  /\ UNCHANGED tally

\* SmaliReader._handle_value: _next_line() and the test of the array loop
ValueArray ==
  /\ pc = "value_array"
  /\ \E r \in Readline : Commit(BlockRead(r, ValueArrayLine(InBlock(r.raw))), r.src, FALSE)
  /\ UNCHANGED tally

\* a further run of the loop of _handle_sparse_switch, on the same line
SparseSwitchLoop ==
  /\ pc = "sparse_switch_loop"
  /\ loc.passes < MaxSpin
  /\ Commit(SparseSwitchPass(Resume), source, FALSE)
  /\ UNCHANGED tally

\* a further run of the loop of _handle_array_data, on the same line
ArrayDataLoop ==
  /\ pc = "array_data_loop"
  /\ loc.passes < MaxSpin
  /\ Commit(ArrayDataPass(Resume), source, FALSE)
  /\ UNCHANGED tally

Next ==
  \/ Visit
  \/ ClassDef
  \/ DoVisit
  \/ PackedSwitch
  \/ SparseSwitch
  \/ ArrayData
  \/ ValueArray
  \/ SparseSwitchLoop
  \/ ArrayDataLoop

Spec == Init /\ [][Next]_vars

(***************************************************************************)
(* A reader of the process is called again: SmaliReader.stack is an        *)
(* attribute of the class, one list that every reader appends to, and      *)
(* visit() has no statement that empties it.                               *)
(***************************************************************************)
\* calls of visit() that are followed
MaxCalls == 2

L_end_class == <<".","e","n","d"," ","c","l","a","s","s">>

\* what a further call of visit() is handed: a class and nothing else, a
\* class with the .end of a scope after it, the empty text
AgainSources ==
  {Holding("str", Lines(<<L_class>>)), Holding("str", Lines(<<L_class, L_end_class>>)),
   Holding("str", <<>>)}

\* the tests of SmaliReader.visit on a source src
RefusalOf(src) ==
  IF src.kind = "none" \/ (src.kind \in {"str", "bytes"} /\ src.given = <<>>)
  THEN "ValueError"
  ELSE IF src.kind \notin {"str", "bytes", "stream", "unreadable"} THEN "TypeError"
  ELSE IF src.kind = "unreadable" THEN "ValueError"
  ELSE IF errors \notin {"ignore", "strict"} THEN "ValueError"
  ELSE "none"

\* SmaliReader.visit up to its first readline(), called on this reader or on
\* another reader of the same settings once an earlier call has returned or
\* raised: the root consumer of the call goes on top of the frames the
\* earlier calls left on the list
VisitAgain ==
  /\ pc \in {"returned", "failed"}
  /\ visits < MaxCalls
  /\ ~source.open
  /\ \E src \in AgainSources :
       /\ source' = src
       /\ IF RefusalOf(src) # "none"
          THEN /\ pc' = "failed"
               /\ exc' = RefusalOf(src)
               /\ UNCHANGED stack
          ELSE /\ pc' = IF snippet THEN "do_visit" ELSE "class_def"
               /\ stack' = Append(stack, RootVisitor)
               /\ exc' = "none"
  /\ loc' = NoLoc
  /\ events' = <<>>
  /\ visits' = visits + 1
  /\ UNCHANGED <<validate, comments, snippet, errors, line, log, tally, cursor, trial, query>>

ReuseStep == Next \/ VisitAgain

ReuseSpec == Init /\ [][ReuseStep]_vars

(***************************************************************************)
(* The Line object on its own: constructed from a line, then driven by any *)
(* sequence of reset, next and peek; the reader stands idle.               *)
(***************************************************************************)
\* resets of one Line object that are followed
MaxResets == 2

L_source_gap == <<".","s","o","u","r","c","e"," "," ","\"","a",".","j","a","v","a","\"">>

\* the lines a Line object is given: the empty line, a blank line, lines of
\* one and of several tokens, with and without a comment at the end, a line
\* with two blanks in a row, a comment line
CursorTexts ==
  {<<>>, NL(L_blank), NL(L_end), NL(L_end_method_eol), NL(L_const), NL(L_source_gap),
   NL(L_comment)}

LineInit ==
  /\ validate = FALSE
  /\ comments = TRUE
  /\ snippet = FALSE
  /\ errors = "strict"
  /\ source = Holding("none", <<>>)
  /\ stack = <<>>
  /\ line = NoLine
  /\ pc = "idle"
  /\ loc = NoLoc
  /\ exc = "none"
  /\ events = <<>>
  /\ log = <<>>
  /\ tally = NoTally
  /\ query = NoQuery
  /\ visits = 0
  /\ \E text \in CursorTexts :
       /\ cursor = Line_init(text)
       /\ trial = TrialOf(text, 0)

\* cursor.reset(text)
LineReset ==
  /\ trial.resets < MaxResets
  /\ \E text \in CursorTexts :
       /\ cursor' = Line_reset(cursor, text)
       /\ trial' = TrialOf(text, trial.resets + 1)
  /\ UNCHANGED <<readervars, query>>

\* next(cursor)
LineNext ==
  /\ LET r == Line_next(cursor)
     IN /\ cursor' = r.line
        /\ trial' = [trial EXCEPT
                       !.fresh = Line_next(@).line,
                       !.got = IF r.raised THEN @ ELSE Append(@, r.value[1]),
                       !.out = Outcome("next", r.raised, r.value)]
  /\ UNCHANGED <<readervars, query>>

\* cursor.peek() and cursor.peek('')
LinePeek ==
  /\ \E default \in {_default, <<<<>>>>} :
       LET r == Line_peek(cursor, default)
       IN /\ cursor' = r.line
          /\ trial' = [trial EXCEPT
                         !.fresh = Line_peek(@, default).line,
                         !.out = Outcome("peek", r.raised, r.value)]
  /\ UNCHANGED <<readervars, query>>

LineStep ==
  \/ LineReset
  \/ LineNext
  \/ LinePeek

LineSpec == LineInit /\ [][LineStep]_vars

(***************************************************************************)
(* The functions of base called on their own: the queries of Type.         *)
(***************************************************************************)
\* the length up to which every text over an alphabet is given
MaxText == 4

\* all texts over chars of length n at most
Texts(chars, n) == UNION {[1..k -> chars] : k \in 0..n}

S_init_int_strings == <<"<","i","n","i","t",">","(","I","[","L","j","a","v","a","/","l","a","n","g","/","S","t","r","i","n","g",";",")","V">>
S_int_array == <<"(","[","I",")","V">>
S_clinit == <<"<","c","l","i","n","i","t",">","(",")","V">>
S_bracketed == <<"<","f","o","o",">","(","I",")","V">>

\* the signatures a Type wraps
Signatures ==
  Texts({"(", ")", "[", "L", "I", "a", ";"}, MaxText)
    \cup {S_init_int_strings, S_int_array, S_clinit, S_bracketed}

D_class == <<"L","p","k","g","/","S","u","b","/","N","a","m","e",";">>
D_array == <<"[","L","p","k","g","/","N","a","m","e",";">>
D_dotted == <<"p","k","g",".","N","a","m","e">>
D_blank == <<"a"," ","b">>

\* the descriptors and class names a Type wraps
TypeNames ==
  Texts({"[", "L", "I", "a", ";", "/", "."}, MaxText) \cup {D_class, D_array, D_dotted, D_blank}

\* the keyword lists get_flags is given hold up to this many entries
MaxKeywords == 3

\* the entries: modifiers, one of them in upper case, the empty entry, a
\* word that is no modifier
Keywords ==
  {AccessType[1].name, AccessType[4].name, AccessType[5].name, <<"F","I","N","A","L">>,
   <<>>, <<"f","o","o">>}

\* the flag values and integers of the containment tests have this many bits
MaskBits == 3

\* the pairs F, other of `other in F`: other a flag value, a plain integer
\* or a str
Containments ==
  {[self |-> f, other |-> [class |-> c, value |-> v]] :
     f \in 0..(Pow2(MaskBits) - 1), c \in {"AccessType", "int"}, v \in 0..(Pow2(MaskBits) - 1)}
  \cup {[self |-> f, other |-> [class |-> "str", value |-> 0]] : f \in 0..(Pow2(MaskBits) - 1)}

L_5 == <<"5">>
L_0x1A == <<"0","x","1","A">>
L_5s == <<"5","s">>
L_3_14 == <<"3",".","1","4">>
L_hi == <<"\"","h","i","\"">>
L_true == <<"t","r","u","e">>
L_false == <<"f","a","l","s","e">>
L_null == <<"n","u","l","l">>
L_1234 == <<"1","2","3","4">>
L_char == <<"'","a","'">>
L_float == <<"3",".","1","4","f">>
L_type == <<"L","f","o","o",";">>

\* the lexemes smali_value is given
Lexemes ==
  Texts({"0", "5", "x", "s", "-", ".", "\""}, MaxText)
    \cup {L_5, L_0x1A, L_5s, L_3_14, L_hi, L_true, L_false, L_null, L_1234, L_char, L_float,
          L_type}

\* the operands of the in-place operators
Operands == 0..2

BaseInit ==
  /\ validate = FALSE
  /\ comments = TRUE
  /\ snippet = FALSE
  /\ errors = "strict"
  /\ source = Holding("none", <<>>)
  /\ stack = <<>>
  /\ line = NoLine
  /\ pc = "idle"
  /\ loc = NoLoc
  /\ exc = "none"
  /\ events = <<>>
  /\ log = <<>>
  /\ tally = NoTally
  /\ cursor = Line_new
  /\ trial = NoTrial
  /\ visits = 0
  /\ query \in {Made("Type", signature) : signature \in Signatures \cup TypeNames}
               \cup {Made("list", values) : values \in Texts(Keywords, MaxKeywords)}
               \cup {Made("AccessType", c) : c \in Containments}
               \cup {Made("str", value) : value \in Lexemes}

\* Type(signature).get_method_name()
GetMethodName ==
  /\ query.fn = "Type"
  /\ LET signature == query.arg
     IN query' = IF Find(signature, <<"(">>) = -1
                 THEN Threw("get_method_name", signature, "TypeError")
                 ELSE Gave("get_method_name", signature, get_method_name(signature))
  /\ UNCHANGED <<readervars, cursor, trial>>

\* a variant of GetMethodParams that asks for the '(' alone
GetMethodParams_OpenOnly ==
  /\ query.fn = "Type"
  /\ LET signature == query.arg
     IN query' = IF Find(signature, <<"(">>) = -1
                 THEN Threw("get_method_params", signature, "TypeError")
                 ELSE Gave("get_method_params", signature, get_method_params(signature))
  /\ UNCHANGED <<readervars, cursor, trial>>

\* Type(signature).get_method_params()
GetMethodParams ==
  /\ query.fn = "Type"
  /\ LET signature == query.arg
     IN query' = IF Find(signature, <<"(">>) = -1 \/ Find(signature, <<")">>) = -1
                 THEN Threw("get_method_params", signature, "TypeError")
                 ELSE Gave("get_method_params", signature, get_method_params(signature))
  /\ UNCHANGED <<readervars, cursor, trial>>

\* Type(signature).get_method_return_type()
GetMethodReturnType ==
  /\ query.fn = "Type"
  /\ LET signature == query.arg
     IN query' = IF Find(signature, <<")">>) = -1
                 THEN Threw("get_method_return_type", signature, "TypeError")
                 ELSE Gave("get_method_return_type", signature,
                           get_method_return_type(signature))
  /\ UNCHANGED <<readervars, cursor, trial>>

\* Type(signature).class_name
ClassName ==
  /\ query.fn = "Type"
  /\ query' = Gave("class_name", query.arg, Type_class_name(query.arg))
  /\ UNCHANGED <<readervars, cursor, trial>>

\* Type(signature).descriptor, of a signature given or of the text an earlier
\* class_name or descriptor returned
Descriptor ==
  /\ \/ query.fn = "Type"
     \/ query.fn \in {"class_name", "descriptor"} /\ query.prior = <<>>
  /\ LET signature == IF query.fn = "Type" THEN query.arg ELSE query.value[1]
         call == Gave("descriptor", signature, Type_descriptor(signature))
     IN query' = IF query.fn = "Type" THEN call ELSE After(call, query)
  /\ UNCHANGED <<readervars, cursor, trial>>

\* AccessType.get_flags(values)
GetFlags ==
  /\ query.fn = "list"
  /\ query' = Gave("get_flags", query.arg, get_flags(query.arg))
  /\ UNCHANGED <<readervars, cursor, trial>>

\* AccessType.get_names(flags), flags the integer get_flags returned
GetNames ==
  /\ query.fn = "get_flags"
  /\ LET flags == [class |-> "int", value |-> query.value[1]]
     IN query' = After(Gave("get_names", flags, get_names(flags)), query)
  /\ UNCHANGED <<readervars, cursor, trial>>

\* other in F
ContainsCall ==
  /\ query.fn = "AccessType"
  /\ query' = IF query.arg.other.class \notin {"AccessType", "int"}
              THEN Threw("__contains__", query.arg, "TypeError")
              ELSE Gave("__contains__", query.arg,
                        AccessType_contains(query.arg.self, query.arg.other))
  /\ UNCHANGED <<readervars, cursor, trial>>

\* smali_value(value)
SmaliValue ==
  /\ query.fn = "str"
  /\ LET r == smali_value(query.arg)
     IN query' = IF r.raised # "none" THEN Threw("smali_value", query.arg, r.raised)
                 ELSE Gave("smali_value", query.arg, r.sm_value[1])
  /\ UNCHANGED <<readervars, cursor, trial>>

\* value.__iadd__(val) and the other in-place operators, on the object
\* smali_value returned: SmaliType.<method>(self, val)
InplaceOperator ==
  /\ query.fn = "smali_value"
  /\ query.raised = "none"
  /\ \E k \in 1..Len(__smali_specials__), val \in Operands :
       LET self == query.value[1]
           method == __smali_specials__[k]
           r == __wrap_special__(self, self.actual_value, val, method)
           arg == [self |-> self, val |-> val]
       IN query' = After(IF r.raised # "none" THEN Threw(method, arg, r.raised)
                         ELSE Gave(method, arg, r.returned[1]), query)
  /\ UNCHANGED <<readervars, cursor, trial>>

BaseStep ==
  \/ GetMethodName
  \/ GetMethodParams
  \/ GetMethodReturnType
  \/ ClassName
  \/ Descriptor
  \/ GetFlags
  \/ GetNames
  \/ ContainsCall
  \/ SmaliValue
  \/ InplaceOperator

BaseSpec == BaseInit /\ [][BaseStep]_vars

(***************************************************************************)
(* Properties.  What the steps of a run are, read off two successive       *)
(* states, and what a sequence of calls holds.                             *)
(***************************************************************************)
\* the statement a line holds: its first token, empty on a blank line
StatementOf(ln) == IF ln.cleaned = <<>> THEN <<>> ELSE Split(ln.cleaned, <<" ">>)[1]

\* the token of a line whose statement starts with a dot
TokenOf(ln) ==
  LET st == StatementOf(ln) IN IF st # <<>> /\ st[1] = "." THEN Tail(st) ELSE <<>>

\* the step in which readline() delivers the end of the stream
EofStep == ~source.eof /\ source'.eof

\* the step in which the drive loop reads a line that holds a statement
StatementStep ==
  /\ pc = "do_visit"
  /\ source' # source
  /\ ~source'.eof
  /\ line'.cleaned # <<>>

\* the calls consumers received in the step
Added == IF pc \in BlockPcs THEN SubSeq(events', Len(events) + 1, Len(events')) ELSE events'

\* the calls of a sequence with the scope that received each
Received(evs) == [i \in DOMAIN evs |-> <<evs[i].call, evs[i].on.cls, evs[i].on.id>>]

\* the calls of one name in a sequence
Only(evs, call) == SelectSeq(evs, LAMBDA e : e.call = call)

\* the consumer opened a scope for one of the calls of this name
Opened(evs, call) == \E i \in DOMAIN evs : evs[i].call = call /\ Truthy(evs[i].ret)

\* a real scope of class cls is on top of the stack
LiveTop(stk, cls) == stk # <<>> /\ stk[Len(stk)].real /\ stk[Len(stk)].cls = cls

\* a source given in full, one of units, of which k lines are read
Given(units) == ~source.open /\ source.given \in units
Consumed == Len(source.given) - Len(source.lines)

(***************************************************************************)
(* C1  the minimal unit                                                    *)
(***************************************************************************)
MinimalUnitParsed == Given({MinimalUnit}) /\ ~snippet /\ pc = "returned"

\* C1: parsing the five-line unit (.class, .super, .method, .registers,
\* .end method) for a consumer that opens a method scope delivers exactly
\* visit_class, visit_super, visit_method and visit_registers, then visit_end
\* on the method scope and, at the end of the stream, visit_end on the class
\* scope; the parse does not fail.
C1_MinimalUnitEvents ==
  /\ (Given({MinimalUnit}) /\ ~snippet /\ Refusal = "none") => exc = "none"
  /\ (MinimalUnitParsed /\ Opened(log, "visit_method"))
       => Received(log) = << <<"visit_class", "ClassVisitor", 1>>,
                             <<"visit_super", "ClassVisitor", 1>>,
                             <<"visit_method", "ClassVisitor", 1>>,
                             <<"visit_registers", "MethodVisitor", 2>>,
                             <<"visit_end", "MethodVisitor", 2>>,
                             <<"visit_end", "ClassVisitor", 1>> >>

\* the minimal unit has been parsed to the end for a consumer that opened
\* the method scope
C1_Witness == MinimalUnitParsed /\ Opened(log, "visit_method") /\ Len(log) = 6

(***************************************************************************)
(* C2  the implicit close of a field scope                                 *)
(***************************************************************************)
\* the drive loop dispatches a statement other than .annotation and .end
\* while a consumer's field scope is on top of the stack, and the statement
\* is handled without failure within the step
ImplicitFieldClose ==
  /\ StatementStep
  /\ LiveTop(stack, "FieldVisitor")
  /\ TokenOf(line') # <<>>
  /\ TokenOf(line') \notin {Token_ANNOTATION, Token_END}
  /\ pc' = "do_visit"

\* C2: when a statement other than .annotation or .end is dispatched while a
\* field scope is on top of the stack, the field scope receives visit_end and
\* is popped before the event of the new statement is emitted.
C2_ImplicitCloseEmitsVisitEnd ==
  [][ImplicitFieldClose
       => /\ events' # <<>>
          /\ events'[1] = Event(stack[Len(stack)], "visit_end", <<>>, None)]_vars

(***************************************************************************)
(* C3, C4, C5  the blocks of a method                                      *)
(***************************************************************************)
\* C3: in a live method scope, .sparse-switch followed by n key lines and
\* .end sparse-switch is handled to its end for every n: the handler runs its
\* loop once on each line it reads and goes on to the next line.
C3_SparseSwitchCompletes ==
  (pc \in {"sparse_switch", "sparse_switch_loop"} /\ LiveTop(stack, "MethodVisitor"))
    => loc.passes <= 1

\* C4: in a live method scope, .array-data followed by n element lines and
\* .end array-data is handled to its end for every n: the handler runs its
\* loop once on each line it reads, so that it holds no more elements than it
\* has read lines.
C4_ArrayDataCompletes ==
  (pc \in {"array_data", "array_data_loop"} /\ LiveTop(stack, "MethodVisitor"))
    => (loc.passes <= 1 /\ Len(loc.values) <= loc.reads)

\* the labels a packed-switch block of n label lines lists, in source order
LabelsOf(n) == [i \in 1..n |-> Tail(BlockBody(n, L_label, L_label2)[i])]

\* C5: in a live method scope a .packed-switch block emits
\* visit_packed_switch(base, labels) exactly once, with the labels in source
\* order, and only once its .end packed-switch line has been consumed.
C5_PackedSwitchOnce ==
  /\ Given(PackedUnits) =>
       LET n == Len(source.given) - 5
           calls == Only(log, "visit_packed_switch")
       IN IF Opened(log, "visit_method") /\ Consumed >= n + 4
          THEN /\ Len(calls) = 1
               /\ calls[1].on.cls = "MethodVisitor"
               /\ calls[1].args = <<Split(L_packed_switch, <<" ">>)[2], LabelsOf(n)>>
          ELSE calls = <<>>
  /\ \A i \in DOMAIN events :
       events[i].call = "visit_packed_switch"
         => /\ i = Len(events)
            /\ pc = "do_visit"
            /\ Contains(StatementOf(line), Token_END)
            /\ events[i].on = stack[Len(stack)]

\* a packed-switch block of MaxBlock labels has been parsed to the end for a
\* consumer that opened the method scope
C5_Witness ==
  /\ Given(PackedUnits)
  /\ Len(source.given) = MaxBlock + 5
  /\ pc = "returned"
  /\ Len(Only(log, "visit_packed_switch")) = 1

(***************************************************************************)
(* C6  the stack is never empty                                            *)
(***************************************************************************)
\* visit() has taken its arguments and has pushed the root scope
Parsing == pc # "idle" /\ Refusal = "none"

\* C6 as stated: in a parse in which, after every statement, the .end
\* statements dispatched by the drive loop are no more than the scope-opening
\* statements (.field, .method, .annotation, .subannotation, nested .class)
\* before them, the stack always holds at least one frame.
C6_BalancedStatementsKeepRoot == (Parsing /\ tally.balanced) => stack # <<>>

\* C6: in a parse in which, after every statement, the .end tokens handled
\* and the field scopes closed by a following statement are together no more
\* than the frames the scope-opening statements have pushed, the stack always
\* holds at least one frame: frame 0 is never popped.
C6_MatchedFramesKeepRoot == (Parsing /\ tally.matched) => stack # <<>>

\* a field scope has been closed by a following statement and an .end has
\* been handled, the frames still matched, and the root alone is left
C6_Witness ==
  /\ Parsing
  /\ tally.matched
  /\ tally.closed >= 1
  /\ tally.popped >= 1
  /\ Len(stack) = 1

C8_IgnoreSwallowsEol == errors = "ignore" => exc # UnexpectedEOL

(***************************************************************************)
(* C9  a scope-opening call that returns nothing                           *)
(***************************************************************************)
\* the calls that open a scope
OpeningCalls ==
  {"visit_inner_class", "visit_field", "visit_method", "visit_annotation",
   "visit_subannotation"}

\* C9: when the scope-opening call of a statement returns an absent value,
\* the frame the statement pushes is a non-null inert no-op instance.
C9_AbsentReturnPushesNoOp ==
  \A i \in DOMAIN events :
    (pc = "do_visit" /\ events[i].call \in OpeningCalls /\ ~Truthy(events[i].ret))
      => /\ stack # <<>>
         /\ Truthy(stack[Len(stack)])
         /\ ~stack[Len(stack)].real

(***************************************************************************)
(* C10  the .end statement                                                 *)
(***************************************************************************)
\* the drive loop dispatches an .end statement on a stack that holds a frame
EndStatement == StatementStep /\ TokenOf(line') = Token_END /\ stack # <<>>

\* C10: an .end statement, whatever follows the token and whatever scope is on
\* top, pops exactly one frame; visit_end is called exactly once, on the
\* popped frame, if that is a consumer's scope, and not at all if it is null
\* or a no-op instance.
C10_EndPopsOneFrame ==
  [][EndStatement =>
       /\ pc' = "do_visit"
       /\ stack' = SubSeq(stack, 1, Len(stack) - 1)
       /\ Only(events', "visit_end")
            = IF stack[Len(stack)].real
              THEN <<Event(stack[Len(stack)], "visit_end", <<>>, None)>>
              ELSE <<>>]_vars

\* an .end statement has just popped a consumer's scope, which received its
\* visit_end
C10_Witness ==
  /\ pc = "do_visit"
  /\ TokenOf(line) = Token_END
  /\ stack # <<>>
  /\ Len(events) = 1
  /\ events[1].call = "visit_end"
  /\ events[1].on.id = Len(stack) + 1

(***************************************************************************)
(* C11  syntax mismatches without validation                               *)
(***************************************************************************)
\* C11: with validate off no statement, a .super whose operand is no type
\* descriptor included, ends the parse with a syntax-mismatch failure.
C11_NoMismatchWithoutValidate == ~validate => exc # "SyntaxError"

(***************************************************************************)
(* C12  validation                                                         *)
(***************************************************************************)
\* the step in which _class_def reads the leading statement of the stream
LeadingStep ==
  /\ pc = "class_def"
  /\ source' # source
  /\ ~source'.eof
  /\ line'.cleaned # <<>>

\* the operand of a statement line at which a type descriptor is expected:
\* the token after .implements and .catch, the token after the modifiers of
\* .class and .annotation, the type after the colon of a .field; <<>> if the
\* line shows none
DescriptorOperand(ln) ==
  LET toks == Split(ln.cleaned, <<" ">>)
      rest == _read_access_flags(Tail(toks)).toks
      parts == Split(rest[1], <<":">>)
  IN IF TokenOf(ln) \in {Token_IMPLEMENTS, Token_CATCH}
     THEN IF Len(toks) >= 2 THEN <<toks[2]>> ELSE <<>>
     ELSE IF TokenOf(ln) \in {Token_CLASS, Token_ANNOTATION}
     THEN IF rest # <<>> THEN <<rest[1]>> ELSE <<>>
     ELSE IF TokenOf(ln) = Token_FIELD
     THEN IF rest # <<>> /\ Len(parts) = 2 THEN <<parts[2]>> ELSE <<>>
     ELSE <<>>

\* the line holds a descriptor operand that is no type descriptor
Mismatched(ln) ==
  DescriptorOperand(ln) # <<>> /\ ~is_type_descriptor(DescriptorOperand(ln)[1])

\* C12: with validate on and a scope on top of the stack, a leading statement
\* whose first token is not exactly .class, and a statement whose descriptor
\* operand is no type descriptor, fail with a SyntaxError under both error
\* policies, before any call is made for the statement and before a frame is
\* pushed for it.
C12_ValidationRejects ==
  [][(/\ validate
      /\ stack # <<>>
      /\ Truthy(stack[Len(stack)])
      /\ \/ LeadingStep /\ StatementOf(line') # <<".">> \o Token_CLASS
         \/ (LeadingStep \/ StatementStep) /\ Mismatched(line'))
       => /\ pc' = "failed"
          /\ exc' = "SyntaxError"
          /\ Added = <<>>
          /\ Len(stack') <= Len(stack)]_vars

(***************************************************************************)
(* C13  the signature of a method                                          *)
(***************************************************************************)
\* the signature of a .method line: the token after its modifiers, <<>> if
\* the line ends before it
SignatureOf(ln) ==
  LET rest == _read_access_flags(Tail(Split(ln.cleaned, <<" ">>))).toks
  IN IF rest # <<>> THEN <<rest[1]>> ELSE <<>>

\* the signature holds no '(' or no ')'
LacksParenthesis(signature) ==
  ~Contains(signature, <<"(">>) \/ ~Contains(signature, <<")">>)

\* the drive loop dispatches a .method statement whose signature lacks '('
\* or ')'
MalformedMethod ==
  /\ StatementStep
  /\ TokenOf(line') = Token_METHOD
  /\ SignatureOf(line') # <<>>
  /\ LacksParenthesis(SignatureOf(line')[1])

\* the stack the handler of a statement finds: without the field scope a
\* statement other than .annotation and .end closes
Below ==
  IF stack # <<>> /\ IsInstance(stack[Len(stack)], "FieldVisitor")
  THEN SubSeq(stack, 1, Len(stack) - 1) ELSE stack

ClassDefReads ==
  /\ pc = "class_def"
  /\ source' # source
  /\ ~source'.eof
  /\ ~IsCommentLine(line'.raw)

\* C14: with snippet on, visit() goes from its start straight to the drive
\* loop, which dispatches the first line like any other, and no visit_class
\* is emitted in the whole parse.  With snippet off the first line that is no
\* comment is read by the class definition: the step is no dispatch of the
\* drive loop, it leaves the stack as it is, and if it does not fail it emits
\* visit_class on the root consumer, with at most the comment at the end of
\* the line after it (nothing if the line ends early under errors='ignore');
\* no other step emits visit_class.
C14_SnippetSkipsClassDef ==
  [][/\ (pc = "idle" /\ pc' # "failed")
          => pc' = IF snippet THEN "do_visit" ELSE "class_def"
     /\ (snippet \/ pc # "class_def") => Only(Added, "visit_class") = <<>>
     /\ ClassDefReads
          => /\ ~snippet
             /\ tally' = tally
             /\ stack' = stack
             /\ pc' \in {"do_visit", "failed"}
             /\ pc' = "failed" => Added = <<>>
             /\ (pc' = "do_visit" /\ Added = <<>>) => errors = "ignore"
             /\ Added # <<>>
                  => /\ Added[1].call = "visit_class"
                     /\ Added[1].on = stack[1]
                     /\ Len(Added) <= 2
                     /\ Len(Added) = 2
                          => Added[2] = Event(stack[1], "visit_eol_comment",
                                              line'.eol_comment, None)]_vars

\* with snippet on, a .class line at the start of the stream has been
\* dispatched by the drive loop: it is handled as a nested class
C14_Witness ==
  /\ snippet
  /\ pc = "do_visit"
  /\ source.open
  /\ source.given = <<>>
  /\ source.left = MaxLines - 1
  /\ TokenOf(line) = Token_CLASS
  /\ Len(events) = 1
  /\ events[1].call = "visit_inner_class"
  /\ tally.opening = 1

(***************************************************************************)
(* C15  the comment at the end of a statement line                         *)
(***************************************************************************)
\* the drive loop hands the line to a handler: a token, or a line of a
\* method or annotation scope
Handled ==
  /\ StatementStep
  /\ \/ TokenOf(line') # <<>>
     \/ IsInstance(stack[Len(stack)], "MethodVisitor")
     \/ IsInstance(stack[Len(stack)], "AnnotationVisitor")

\* C15: when the handler of a statement line that carries a comment at its
\* end completes without failure, a consumer's scope being on top of the
\* stack before and after it, exactly one visit_eol_comment with that comment
\* is emitted in the step, and no other call follows it.
C15_EolCommentForwarded ==
  [][(/\ stack # <<>>
      /\ stack[Len(stack)].real
      /\ Handled
      /\ has_eol(line')
      /\ pc' # "failed"
      /\ stack' # <<>>
      /\ stack'[Len(stack')].real)
       => /\ Len(Only(Added, "visit_eol_comment")) = 1
          /\ Added[Len(Added)].call = "visit_eol_comment"
          /\ Added[Len(Added)].args = line'.eol_comment]_vars

(***************************************************************************)
(* C16  blank lines and comment lines                                      *)
(***************************************************************************)
\* the step reads a line: readline() has delivered one, not the end
ReadStep == source' # source /\ ~source'.eof

\* the line read holds blanks only
BlankRead == ReadStep /\ line'.raw = <<>>

\* the line read holds a comment only
CommentRead == ReadStep /\ IsCommentLine(line'.raw)

\* C16: wherever it is read, with a scope on top of the stack, a blank line
\* leaves the stack as it is, causes no failure and emits no event, and a
\* comment-only line leaves the stack as it is, causes no failure and emits
\* exactly one visit_comment on the scope on top of the stack when comments
\* is on (nothing on a no-op instance) and no event when comments is off.
C16_BlankAndCommentLinesSkipped ==
  [][(stack # <<>> /\ Truthy(stack[Len(stack)]))
       => /\ BlankRead => (stack' = stack /\ pc' # "failed" /\ Added = <<>>)
          /\ CommentRead
               => /\ stack' = stack
                  /\ pc' # "failed"
                  /\ Added = IF comments /\ stack[Len(stack)].real
                             THEN <<Event(stack[Len(stack)], "visit_comment",
                                          line'.eol_comment, None)>>
                             ELSE <<>>]_vars

(***************************************************************************)
(* C17  the arguments of visit                                             *)
(***************************************************************************)
\* visit() is called with an errors value that is no policy, or with a source
\* that is neither a text nor a byte string nor a stream
BadArguments ==
  \/ errors \notin {"strict", "ignore"}
  \/ source.kind \notin {"str", "bytes", "stream", "unreadable"}

\* C17: visit() called with an errors value other than 'strict' and 'ignore',
\* or with a source that is neither text nor bytes nor a stream, fails with a
\* ValueError or a TypeError: it reads no line, emits no event and leaves the
\* stack as it was before the call; a source of another type that is not
\* null fails with the TypeError.
C17_BadArgumentsRefused ==
  [][(pc = "idle" /\ BadArguments)
       => /\ pc' = "failed"
          /\ exc' \in {"ValueError", "TypeError"}
          /\ source.kind = "object" => exc' = "TypeError"
          /\ (source.kind \in {"str", "bytes", "stream"} /\ source.given # <<>>)
               => exc' = "ValueError"
          /\ source' = source
          /\ line' = line
          /\ events' = <<>>
          /\ log' = <<>>
          /\ stack' = stack]_vars

\* visit() has refused a source that is no text, no byte string and no
\* stream, under a valid errors policy
C17_Witness ==
  /\ pc = "failed"
  /\ exc = "TypeError"
  /\ source.kind = "object"
  /\ errors \in {"strict", "ignore"}
  /\ stack = <<>>
  /\ events = <<>>
  /\ ~source.eof

(***************************************************************************)
(* C18, C19, C20  the line cursor                                          *)
(***************************************************************************)
\* the tokens of the line the object was given last: the parts of its
\* cleaned text between single blanks; the empty line has none
CleanedTokens == IF trial.fed = <<>> THEN <<>> ELSE Split(cursor.cleaned, <<" ">>)

\* C18: peek never advances: it leaves the object as it is, and with it
\* has_next and the result of the next advance, and it returns the token the
\* next advance returns.  The advances after a reset return the tokens of the
\* cleaned line in order, each once, and the first advance after the last
\* token, and every one after it, raises StopIteration and changes nothing.
C18_PeekAndAdvance ==
  [][LET toks == CleanedTokens
         k == Len(trial.got)
         out == trial'.out
     IN /\ out.op = "peek"
             => /\ cursor' = cursor
                /\ Line_bool(cursor') = Line_bool(cursor)
                /\ Line_next(cursor') = Line_next(cursor)
                /\ trial'.got = trial.got
                /\ k < Len(toks) => (~out.raised /\ out.value = <<toks[k + 1]>>)
                /\ k >= Len(toks) => (out.raised = (out.value = _default))
        /\ out.op = "next"
             => IF k < Len(toks)
                THEN /\ ~out.raised
                     /\ out.value = <<toks[k + 1]>>
                     /\ trial'.got = Append(trial.got, toks[k + 1])
                ELSE /\ out.raised
                     /\ cursor' = cursor
                     /\ trial'.got = trial.got]_vars

\* a line of three tokens has been advanced over to its end, and the advance
\* after the last token has raised StopIteration
C18_Witness ==
  /\ Len(trial.got) >= 3
  /\ trial.got = CleanedTokens
  /\ trial.out = Outcome("next", TRUE, _default)

\* C19: the end of the line is told from a current token that is the empty
\* string: has_next is true as long as advance has not returned all tokens of
\* the line and false from then on, and where the current token is '' peek
\* and advance return '' and raise nothing.
C19_EmptyTokenIsNoEnd ==
  LET toks == CleanedTokens
      k == Len(trial.got)
  IN /\ Line_bool(cursor) = (k < Len(toks))
     /\ (k < Len(toks) /\ toks[k + 1] = <<>>)
          => /\ Line_peek(cursor, _default) = [line |-> cursor, raised |-> FALSE,
                                                value |-> <<<<>>>>]
             /\ ~Line_next(cursor).raised
             /\ Line_next(cursor).value = <<<<>>>>
             /\ Line_bool(Line_next(cursor).line) = (k + 1 < Len(toks))

\* after the first token of a line with two blanks in a row, the current
\* token is the empty string and a token follows it
C19_Witness ==
  /\ Len(trial.got) = 1
  /\ trial.out = Outcome("next", FALSE, <<trial.got[1]>>)
  /\ cursor._head = <<<<>>>>
  /\ cursor._it # <<>>
  /\ Line_bool(cursor)

\* the tokens the object has not handed out yet
Remaining(ln) == IF ln._head = _default THEN <<>> ELSE ln._head \o ln._it

\* what a caller can observe of a Line object: its attributes (<<>> where
\* reading one raises AttributeError), has_next, the tokens the advances
\* return from here on, last
Observable(ln) ==
  [raw |-> Line_attr(ln, ln.raw),
   cleaned |-> Line_attr(ln, ln.cleaned),
   eol_comment |-> Line_attr(ln, ln.eol_comment),
   has_next |-> Line_bool(ln),
   tokens |-> Remaining(ln),
   last |-> Line_attr(ln, last(ln))]

\* C20: for every sequence of lines, the empty line included, one Line object
\* driven through reset(line) shows after each reset, and after the same
\* calls from then on, what a fresh Line made from that line alone shows: no
\* state of an earlier line survives a reset.
C20_ResetIsFresh == Observable(cursor) = Observable(trial.fresh)

(***************************************************************************)
(* C21, C28  the method queries of Type                                    *)
(***************************************************************************)
RECURSIVE Concat(_)
\* the texts of a list, joined
Concat(list) == IF list = <<>> THEN <<>> ELSE Head(list) \o Concat(Tail(list))

\* the text between the parentheses of a signature that has both
Between(signature) ==
  PySlice(signature, Find(signature, <<"(">>) + 1, Find(signature, <<")">>))

RECURSIVE Decomposable(_)
\* the text is a row of parameters: each a run of '[', possibly empty, and
\* then either 'L' up to the next ';' or one other character
Decomposable(text) ==
  \/ text = <<>>
  \/ LET r == LStripSet(text, {"["})
     IN /\ r # <<>>
        /\ IF Head(r) = "L"
           THEN /\ Find(r, <<";">>) # -1
                /\ Decomposable(PyFrom(r, Find(r, <<";">>) + 1))
           ELSE /\ Head(r) # ";"
                /\ Decomposable(Tail(r))

\* one parameter: a run of '[', then 'L' up to a ';' or one other character
IsParameter(p) ==
  LET r == LStripSet(p, {"["})
  IN /\ r # <<>>
     /\ IF Head(r) = "L" THEN Find(r, <<";">>) = Len(r) - 1 ELSE Len(r) = 1

\* C21: the parameters get_method_params returns for a signature whose text
\* between the parentheses is a row of parameters are parameters, each with
\* its run of '[' in front, and joined they are that text again.
C21_ParamsRebuildText ==
  (/\ query.fn = "get_method_params"
   /\ query.raised = "none"
   /\ Decomposable(Between(query.arg)))
    => /\ \A i \in 1..Len(query.value[1]) : IsParameter(query.value[1][i])
       /\ Concat(query.value[1]) = Between(query.arg)

IsClassDescriptor(d) ==
  /\ Len(d) >= 3
  /\ d[1] = "L"
  /\ d[Len(d)] = ";"
  /\ \A i \in 2..(Len(d) - 1) : d[i] \notin Whitespace \cup {";", "[", "."}

\* C27: the class name of a class descriptor is its name with dots, and the
\* descriptor of that class name is the descriptor again, with a run of '['
\* in front as well; the descriptor of a descriptor is that descriptor.
C27_DescriptorRoundTrip ==
  (query.fn = "descriptor" /\ query.prior # <<>>)
    => LET first == query.prior[1]
           d == first.arg
           element == LStripSet(d, {"["})
       IN /\ (first.fn = "class_name" /\ IsClassDescriptor(element))
               => /\ first.value[1] = Replace(PySlice(element, 1, -1), "/", ".")
                  /\ query.value[1] = d
          /\ first.fn = "descriptor" => query.value[1] = first.value[1]

(***************************************************************************)
(* C25, C26  the access modifiers                                          *)
(***************************************************************************)
\* the entries of a list, as a set
Entries(list) == {list[i] : i \in 1..Len(list)}

\* the bit of a modifier keyword
BitOf(keyword) ==
  AccessType[CHOOSE i \in 1..Len(AccessType) : AccessType[i].name = keyword].value

\* a list in another order
Reverse(list) == [i \in 1..Len(list) |-> list[Len(list) + 1 - i]]

\* the keyword list, the mask and the names of a get_names that followed a
\* get_flags
Converted == query.fn = "get_names" /\ query.prior # <<>> /\ query.prior[1].fn = "get_flags"

Overlap(a, b) == \E i \in 0..MaskBits : (a \div Pow2(i)) % 2 = 1 /\ (b \div Pow2(i)) % 2 = 1

\* every bit of a is a bit of b
Within(a, b) == \A i \in 0..MaskBits : (a \div Pow2(i)) % 2 = 1 => (b \div Pow2(i)) % 2 = 1

NumeralDigits(value) ==
  LET v == Unsigned(value)
      b == IF v # <<>> /\ v[Len(v)] \in {"s", "l", "t"} THEN PySlice(v, 0, -1) ELSE v
  IN IF StartsWith(b, <<"0", "x">>) THEN [base |-> 16, digits |-> PyFrom(b, 2)]
     ELSE [base |-> 10, digits |-> b]

IsNumeral(value) ==
  LET n == NumeralDigits(value)
  IN /\ n.digits # <<>>
     /\ \A i \in 1..Len(n.digits) : n.digits[i] \in (IF n.base = 16 THEN HexDigits ELSE Digits)

\* the value of the numeral
NumeralValue(value) ==
  LET n == NumeralDigits(value)
      magnitude == IF n.base = 16 THEN HexVal(n.digits, 0) ELSE DecVal(n.digits, 0)
  IN IF Head(value) = "-" THEN 0 - magnitude ELSE magnitude

\* the decoded value of the literal smali_value returned, as <<value>>
Decoded == IF query.raised = "none" THEN <<query.value[1].actual_value>> ELSE <<>>

\* C22: smali_value decodes a numeral of an integer kind to its value, in
\* base 16 iff it has the prefix 0x, the suffix letter left out; digits
\* with a point between them to a double, true to the boolean, a word in
\* double quotes to the word (stated here for the values that are not zero
\* and not empty).
C22_ClassifiedAsSpecified ==
  query.fn = "smali_value"
    => LET value == query.arg
           inner == PySlice(value, 1, -1)
       IN /\ (IsNumeral(value) /\ NumeralValue(value) # 0)
               => Decoded = <<[class |-> "int", value |-> NumeralValue(value)]>>
          /\ (Decimal(Unsigned(value), TRUE) /\ \E i \in 1..Len(value) : value[i] \in Digits \ {"0"})
               => Decoded = <<[class |-> "float", value |-> value]>>
          /\ value = L_true => Decoded = <<[class |-> "bool", value |-> TRUE]>>
          /\ (Matches("RE_STRING_VALUE", value) /\ inner # <<>>)
               => Decoded = <<[class |-> "str", value |-> inner]>>

\* some pattern of TYPE_MAP matches the lexeme
Classifiable(value) == \E i \in 1..Len(TYPE_MAP) : Matches(TYPE_MAP[i].matcher, value)

\* C23: smali_value raises the error of a lexeme no pattern matches exactly
\* for the lexemes no pattern of TYPE_MAP matches; for every other lexeme it
\* returns a literal.
C23_RaisesExactlyOnNoMatch ==
  query.fn = "smali_value"
    => /\ (query.raised = NoMatchingType) <=> ~Classifiable(query.arg)
       /\ Classifiable(query.arg) => query.raised = "none"

\* C24: an in-place operator on the literal of an integer returns an object
\* that holds the combined value and is not the object it was applied to.
C24_InplaceReturnsNewWrapper ==
  (/\ query.fn \in {__smali_specials__[k] : k \in 1..Len(__smali_specials__)}
   /\ query.raised = "none"
   /\ query.arg.self.actual_value.class = "int"
   /\ query.fn # "__itruediv__")
    => /\ query.value[1].actual_value.value
            = Special(query.fn, query.arg.self.actual_value, query.arg.val).result[1]
       /\ query.value[1].id # query.arg.self.id
       /\ query.prior[1].value[1] = query.arg.self

(***************************************************************************)
(* C30  the line that ends a block                                         *)
(***************************************************************************)
\* the step in which the handler of a packed-switch block or of an array of
\* an annotation reads the line that ends its block, and returns
BlockHandled == pc \in {"packed_switch", "value_array"} /\ pc' = "do_visit" /\ exc' = "none"

\* C30: when the handler of a packed-switch block or of a multi-line array
\* has read the line that ends the block, the stack is what it was before
\* the first line of the block was read; the line is not dispatched as an
\* .end statement and no scope receives visit_end for it.
C30_BlockLeavesStack ==
  [][BlockHandled
       => /\ stack' = tally.before
          /\ stack' = stack
          /\ tally' = tally
          /\ Only(Added, "visit_end") = <<>>]_vars

\* a method with a packed-switch block of two labels has been read to its
\* end: the block was reported to the method scope, and the .end method
\* after it closed that scope
C30_Witness ==
  /\ Given(PackedUnits)
  /\ Len(source.given) = 7
  /\ pc = "returned"
  /\ Len(stack) = 1
  /\ \E i \in DOMAIN log :
       /\ log[i].call = "visit_packed_switch"
       /\ log[i + 1].call = "visit_end"
       /\ log[i + 1].on = log[i].on
       /\ log[i].on.cls = "MethodVisitor"

(***************************************************************************)
(* C29  the stack at the start of a call of visit()                        *)
(***************************************************************************)
\* the step in which a call of visit() has taken its arguments and pushed
\* its root consumer
VisitBegun == pc \in {"idle", "returned", "failed"} /\ pc' \in {"class_def", "do_visit"}

\* C29: at the start of every call of visit(), a further call after an
\* earlier one has returned or raised included, the stack holds one frame,
\* the root consumer handed to that call.
C29_VisitStartsWithRootAlone ==
  [][VisitBegun => Len(stack') = 1 /\ stack'[1] = RootVisitor]_vars

(***************************************************************************)
(* C31  a scope-opening statement that runs off its line                   *)
(***************************************************************************)
\* the line holds its token and modifiers only: the handler of a
\* scope-opening statement meets the end of the line where it reads the
\* operand
RunsOffLine(ln) ==
  LET toks == Split(ln.cleaned, <<" ">>)
  IN \A i \in 2..Len(toks) : find(toks[i])

\* under errors='ignore' the drive loop dispatches a .field, .method,
\* .annotation or nested .class statement that runs off its line
AbandonedOpening ==
  /\ StatementStep
  /\ errors = "ignore"
  /\ stack # <<>>
  /\ TokenOf(line') \in {Token_CLASS, Token_FIELD, Token_METHOD, Token_ANNOTATION}
  /\ RunsOffLine(line')

\* the stack the handler of the statement read in the step finds: without
\* the field scope that _handle_token pops for a statement other than
\* .annotation and .end
FoundStack ==
  IF /\ stack # <<>>
     /\ IsInstance(stack[Len(stack)], "FieldVisitor")
     /\ TokenOf(line') \notin {Token_ANNOTATION, Token_END}
  THEN SubSeq(stack, 1, Len(stack) - 1) ELSE stack

\* C31: under errors='ignore' a scope-opening statement abandoned at the
\* unexpected end of its line emits no scope-opening call and pushes no
\* frame: the stack is the one its handler found.
C31_AbandonedOpeningPushesNothing ==
  [][AbandonedOpening
       => /\ \A i \in DOMAIN Added : Added[i].call \notin OpeningCalls
          /\ stack' = FoundStack]_vars

(***************************************************************************)
(* C32  instruction lines                                                  *)
(***************************************************************************)
\* the drive loop reads a line that starts with neither '.' nor ':' while a
\* method scope is on top of the stack
InstructionStep ==
  /\ StatementStep
  /\ StatementOf(line')[1] \notin {".", ":"}
  /\ stack # <<>>
  /\ IsInstance(stack[Len(stack)], "MethodVisitor")

\* the calls of a sequence other than the comment calls
Primary(evs) == SelectSeq(evs, LAMBDA e : e.call \notin {"visit_comment", "visit_eol_comment"})

\* the text of a mnemonic after its first hyphen, empty if it has none
Qualifier(mn) ==
  IF \E i \in DOMAIN mn : mn[i] = "-"
  THEN LET h == CHOOSE i \in DOMAIN mn : mn[i] = "-" /\ \A j \in 1..(i - 1) : mn[j] # "-"
       IN SubSeq(mn, h + 1, Len(mn))
  ELSE <<>>

\* a text without the colons at its start
RECURSIVE Uncolon(_)
Uncolon(s) == IF s # <<>> /\ Head(s) = ":" THEN Uncolon(Tail(s)) ELSE s

\* the call is the one the mnemonic of the line asks for, with its leading
\* argument: the qualifier for an invoke or a return, the label without its
\* colon for a goto, the mnemonic for any other instruction
AsMnemonicAsks(e, ln) ==
  LET toks == Split(ln.cleaned, <<" ">>)
      mn == toks[1]
  IN IF StartsWith(mn, INVOKE)
     THEN e.call = "visit_invoke" /\ e.args[1] = Qualifier(mn)
     ELSE IF StartsWith(mn, RETURN)
     THEN e.call = "visit_return" /\ e.args[1] = Qualifier(mn)
     ELSE IF mn = GOTO
     THEN e.call = "visit_goto" /\ Len(toks) >= 2 /\ e.args = <<Uncolon(toks[2])>>
     ELSE e.call = "visit_instruction" /\ e.args[1] = mn

\* the instruction line emits one primary call, on the method scope, the one
\* its mnemonic asks for
OneCallAsAsked ==
  /\ Len(Primary(Added)) = 1
  /\ Primary(Added)[1].on = stack[Len(stack)]
  /\ AsMnemonicAsks(Primary(Added)[1], line')

PlainStep ==
  /\ StatementStep
  /\ StatementOf(line')[1] \notin {".", ":"}
  /\ stack # <<>>

\* the calls _handle_instruction makes
InstructionCalls == {"visit_invoke", "visit_return", "visit_goto", "visit_instruction"}

\* the line is `name = value` with a value that starts with no '.' and has
\* no brace: a simple value
SimpleValue(ln) ==
  LET toks == Split(ln.cleaned, <<" ">>)
  IN /\ Len(toks) >= 3
     /\ toks[3] # <<>>
     /\ toks[3][1] # "."
     /\ \A i \in DOMAIN ln.cleaned : ln.cleaned[i] \notin {"{", "}"}

\* C33: a statement that starts with neither '.' nor ':' is handled by the
\* kind of the scope on top of the stack alone: as an annotation value under
\* an annotation scope (a simple value gives one visit_value of its name and
\* value, and no line gives a call of an instruction), as an instruction under
\* a method scope (the call its mnemonic asks for), and under a class scope,
\* a field scope or a null frame it emits nothing, fails nothing and leaves
\* the stack, an open field scope included, as it is.
C33_PlainLineGoesByTopScope ==
  [][PlainStep
       => LET top == stack[Len(stack)]
              toks == Split(line'.cleaned, <<" ">>)
          IN IF IsInstance(top, "AnnotationVisitor")
             THEN /\ \A i \in DOMAIN Added : Added[i].call \notin InstructionCalls
                  /\ (top.real /\ SimpleValue(line'))
                       => /\ Len(Primary(Added)) = 1
                          /\ Primary(Added)[1].call = "visit_value"
                          /\ Primary(Added)[1].on = top
                          /\ Primary(Added)[1].args = <<toks[1], toks[3]>>
                          /\ stack' = stack
             ELSE IF IsInstance(top, "MethodVisitor")
             THEN /\ \A i \in DOMAIN Primary(Added) : Primary(Added)[i].call \in InstructionCalls
                  /\ (top.real /\ pc' = "do_visit") => OneCallAsAsked
                  /\ stack' = stack
             ELSE /\ Added = <<>>
                  /\ stack' = stack
                  /\ pc' = "do_visit"]_vars

\* a stream that has opened a field in a class has delivered the line
\* `name = 0x1`: nothing was emitted and the field scope is still on top
C33_Witness ==
  /\ source.open
  /\ source.given = Lines(<<L_class, L_field>>)
  /\ source.lines = <<>>
  /\ line.cleaned = L_value
  /\ pc = "do_visit"
  /\ events = <<>>
  /\ Len(stack) = 2
  /\ LiveTop(stack, "FieldVisitor")

(***************************************************************************)
(* C34  an array of an annotation over several lines                       *)
(***************************************************************************)
\* the values an array of n value lines lists, in source order: the first
\* token of each line without the comma at its end
ItemsOf(n) == [i \in 1..n |-> IF i % 2 = 1 THEN <<"\"","a","\"">> ELSE <<"b">>]

\* C34: in a live annotation scope a `name = {` line, n value lines and a
\* closing line that ends or starts with `}` emit visit_array(name, values)
\* exactly once and no visit_value; values holds the first token of each of
\* the n value lines, without its trailing comma, in source order; the call
\* is made in the step that reads the closing line, on the annotation scope.
C34_ArrayOverLinesOnce ==
  /\ Given(ValueArrayUnits) =>
       LET n == Len(source.given) - 5
           arrays == Only(log, "visit_array")
       IN /\ Only(log, "visit_value") = <<>>
          /\ IF Opened(log, "visit_annotation") /\ Consumed >= n + 4
             THEN /\ Len(arrays) = 1
                  /\ arrays[1].on.cls = "AnnotationVisitor"
                  /\ arrays[1].on.real
                  /\ arrays[1].args = <<Split(L_value_array, <<" ">>)[1], ItemsOf(n)>>
             ELSE arrays = <<>>
  /\ \A i \in DOMAIN events :
       (events[i].call = "visit_array" /\ ~Contains(line.cleaned, <<"{">>))
         => /\ i = Len(events)
            /\ pc = "do_visit"
            /\ line.cleaned # <<>>
            /\ (line.cleaned[1] = "}" \/ line.cleaned[Len(line.cleaned)] = "}")
            /\ events[i].on = stack[Len(stack)]

\* an array of MaxBlock value lines whose closing line holds a value before
\* its brace has been parsed to the end for a consumer that opened the
\* annotation scope
C34_Witness ==
  /\ Given(ValueArrayUnits)
  /\ Len(source.given) = MaxBlock + 5
  /\ source.given[MaxBlock + 4] = NL(L_array_last)
  /\ pc = "returned"
  /\ Len(Only(log, "visit_array")) = 1
  /\ Only(log, "visit_array")[1].args[2] = ItemsOf(MaxBlock)

=============================================================================
